---- MODULE Spec2Model ----
(***************************************************************************)
(* The rollup driver of components/node/rollup/driver/state.go: the event  *)
(* loop, the public control API that talks to it over channels, and the    *)
(* derivation pipeline, proposer and timers it drives.  The pipeline and   *)
(* the proposer are interfaces: what their calls return and how they move  *)
(* the unsafe head and the engine's readiness is chosen by the             *)
(* environment.                                                            *)
(***************************************************************************)
EXTENDS Integers, Sequences, FiniteSets, TLC

\* ------------------------------------------------------------------ bounds
\* L2 block references are 1..MaxHead; 0 is the zero value L2BlockRef{}.
MaxHead == 2
\* L1 block references are 1..MaxL1; 0 is the zero value L1BlockRef{}.
MaxL1 == 1
\* Step fails (temporary, unclassified, reset) only while stepAttempts < MaxAttempts.
MaxAttempts == 2
\* The environment causes at most MaxResets pipeline resets after Start
\* (Step results ErrReset plus accepted ResetDerivationPipeline requests).
MaxResets == 2

\* API calls in progress or returned with their result not yet dropped, where
\* the callers are limited.
MaxInFlight == 1

L2Heads == 1..MaxHead
L1Refs == 1..MaxL1

\* ------------------------------------------------------------------- state
VARIABLES
  loop,                \* eventLoop goroutine: "idle" (not started), "top", "select", "exited",
                       \* or blocked in a send to a caller ("stateResp", "startResp", "stopResp")
  ProposerEnabled,     \* driverConfig.ProposerEnabled (immutable)
  ProposerStopped,     \* driverConfig.ProposerStopped
  l1Head,              \* l1State.L1Head(), 0 = eth.L1BlockRef{}
  engineReady,         \* derivation.EngineReady()
  unsafeL2Head,        \* derivation.UnsafeL2Head()
  needsReset,          \* pipeline: Step returned ErrReset and Reset() has not run since
  buildingOnto,        \* proposer.BuildingOnto()
  stepReqCh,           \* len(stepReqCh), capacity 1
  delayedStepReq,      \* 0 = nil channel, a > 0 = time.After(Duration(a)) pending
  stepAttempts,        \* consecutive failed attempts
  derivationIdle,      \* metrics.SetDerivationIdle
  proposerCh,          \* "nil" or "C" (proposerTimer.C)
  proposerTimer,       \* [armed: timer running, tick: len(proposerTimer.C)]
  calls,               \* collaborator calls of the current loop iteration, in order
  resetCalls,          \* number of derivation.Reset() calls
  pipelineResets,      \* metrics.RecordPipelineReset count
  resetCauses,         \* Step results ErrReset + force resets accepted by the loop
  startCall,           \* the StartProposer caller
  stopCall,            \* the StopProposer caller
  resetCall,           \* the ResetDerivationPipeline caller
  l1Safe,              \* l1State.L1Safe()
  l1Finalized,         \* l1State.L1Finalized()
  safeL2Head,          \* derivation.SafeL2Head(), a block number
  finalizedL2Head,     \* derivation.Finalized(), a block number
  lastFired,           \* stepAttempts behind the last delayed step that fired in this
                       \* run of failed steps (0: none fired yet)
  lastSched,           \* stepAttempts behind the last delayed step scheduled in this
                       \* run of failed steps (0: none scheduled yet)
  sigCall,             \* the caller of OnL1Head / OnL1Safe / OnL1Finalized / OnUnsafeL2Payload
  stateCall,           \* the SyncStatus caller
  L2SyncCl,            \* L2SyncCl # nil: a backup sync client is configured (immutable)
  fetchCh,             \* the block numbers in L2SyncCl.FetchUnsafeBlock, oldest first
  closeCall,           \* the Close caller
  stepped,             \* the loop has run Step at least once
  cfg,                 \* the rollup configuration
  checkErr             \* what cfg.Check() returned ("unchecked" before it is called)

loopVars == <<loop, ProposerStopped, l1Head, stepReqCh, delayedStepReq, stepAttempts,
              derivationIdle, proposerCh, calls>>
timerVars == <<proposerTimer>>
pipeVars == <<engineReady, unsafeL2Head, needsReset, resetCalls, pipelineResets, resetCauses>>
propVars == <<buildingOnto>>
callVars == <<startCall, stopCall, resetCall>>
vars == <<loop, ProposerEnabled, ProposerStopped, l1Head, engineReady, unsafeL2Head,
          needsReset, buildingOnto, stepReqCh, delayedStepReq, stepAttempts,
          derivationIdle, proposerCh, proposerTimer, calls, resetCalls,
          pipelineResets, resetCauses, startCall, stopCall, resetCall,
          l1Safe, l1Finalized, safeL2Head, finalizedL2Head, lastFired, lastSched, sigCall, stateCall,
          L2SyncCl, fetchCh, closeCall, stepped, cfg, checkErr>>

l1SigVars == <<l1Safe, l1Finalized>>
chainVars == <<safeL2Head, finalizedL2Head>>
histVars == <<lastFired, lastSched>>
apiVars == <<sigCall, stateCall>>
auxVars == <<l1SigVars, chainVars, histVars, apiVars>>
syncVars == <<L2SyncCl, fetchCh>>
confVars == <<cfg, checkErr>>
extVars == <<syncVars, closeCall, stepped, confVars>>

\* A call on a collaborator, as logged in calls.
Call(op, arg) == <<op, arg>>

Called(cs, op) == \E i \in 1..Len(cs) : cs[i][1] = op

CountCalls(cs, op) == Cardinality({i \in 1..Len(cs) : cs[i][1] = op})

InCalls(cs, c) == \E i \in 1..Len(cs) : cs[i] = c

\* ----------------------------------------------------------- step requests
\* step that sends nothing.
step_Dropped(ch) == ch

\* step: non-blocking send on the capacity-1 channel.
step(ch) == 1

\* The backoff strategy: the delay in milliseconds before the reattempt that
\* follows the attempts-th failure in a row; it starts at MinBackoff, doubles
\* per failure and is capped at MaxBackoff (jitter left out).
MinBackoff == 50

MaxBackoff == 10000

Duration(attempts) ==
  IF MinBackoff * 2^(attempts - 1) > MaxBackoff
    THEN MaxBackoff
    ELSE MinBackoff * 2^(attempts - 1)

\* reqStep that backs off less the more attempts have failed.
reqStep_ShrinkingDelay(ch, delayed, attempts) ==
  IF attempts > 0
    THEN IF delayed = 0 THEN <<ch, MaxAttempts + 2 - attempts>> ELSE <<ch, delayed>>
    ELSE <<step(ch), delayed>>

\* reqStep that requests the step at once, whatever stepAttempts is.
reqStep_Immediate(ch, delayed, attempts) == <<step(ch), delayed>>

\* reqStep that schedules a new delayed step over one that is pending.
reqStep_Reschedules(ch, delayed, attempts) ==
  IF attempts > 0
    THEN <<ch, attempts>>
    ELSE <<step(ch), delayed>>

\* reqStep: returns the new <<len(stepReqCh), delayedStepReq>>; a scheduled
\* delayedStepReq is kept as the attempts its Duration was computed from.
reqStep(ch, delayed, attempts) ==
  IF attempts > 0
    THEN IF delayed = 0 THEN <<ch, attempts>> ELSE <<ch, delayed>>
    ELSE <<step(ch), delayed>>

\* ---------------------------------------------------------- proposer timer
\* time.NewTimer(0): running, nothing in C yet.
NewTimer == [armed |-> TRUE, tick |-> 0]

\* planProposerAction that drains C and leaves the timer as it expired.
planProposerAction_NoReset(t) == {[armed |-> FALSE, tick |-> 0]}

\* planProposerAction on timer t: the timers it may leave.  A tick in C is
\* drained, then Reset arms the timer; a timer still running at the len()
\* check may expire before Reset and leave its tick in C.
planProposerAction(t) ==
  {[armed |-> TRUE, tick |-> 0]} \cup
  (IF t.armed THEN {[armed |-> TRUE, tick |-> 1]} ELSE {})

\* The proposer timer expires: its tick goes to C (capacity 1).
TimerExpire ==
  /\ proposerTimer.armed
  /\ loop \in {"top", "select", "exited"}
  /\ proposerTimer' = [armed |-> FALSE, tick |-> 1]
  /\ UNCHANGED <<loopVars, ProposerEnabled, pipeVars, propVars, callVars>>
  /\ UNCHANGED extVars
  /\ UNCHANGED auxVars

\* ------------------------------------------------------------ the callers
\* A StartProposer call: where it is (pc), its blockHash, what the loop put
\* on its err channel (reply, "none" while nothing), and what it returned
\* (ret).  sawStopped and sawHead record ProposerStopped and the unsafe head
\* as they were when the loop took the request.  The frame of a call that
\* is not waiting for its reply holds only pc, hash and ret.
StartFrame(pc, hash, ret) ==
  [pc |-> pc, hash |-> hash, reply |-> "none", ret |-> ret,
   sawStopped |-> FALSE, sawHead |-> 0]

\* A StopProposer call, likewise; reply and ret are hashAndError values.
StopFrame(pc, ret) ==
  [pc |-> pc, reply |-> "none", ret |-> ret, sawStopped |-> FALSE, sawHead |-> 0]

\* A call of OnL1Head, OnL1Safe, OnL1Finalized or OnUnsafeL2Payload: which
\* (kind) and what it returned; the reference or payload it carries is
\* chosen when the loop receives it.
SigFrame(pc, kind, ret) == [pc |-> pc, kind |-> kind, ret |-> ret, arg |-> 0]

\* A SyncStatus or BlockRefWithStatus call (kind): its pc, the fields of the
\* status it has read so far (the status it returns once it has them all;
\* after the return only "ok" is kept, or "ctx" for the context error), and
\* whether the loop's send on its wait channel has completed without it (sent).
StateFrame(pc, kind, status, sent) ==
  [pc |-> pc, kind |-> kind, status |-> status, sent |-> sent]

\* The public API calls that block in a select, and the kinds of signal.
SigKinds == {"head", "safe", "finalized", "payload"}

\* ctxSelects with a status call that also gives up while it reads.
ctxSelects_StatusCallGivesUp(api) ==
  IF api \in {"ResetDerivationPipeline", "StartProposer", "StopProposer"}
    THEN {"send", "wait"}
    ELSE IF api \in {"SyncStatus", "BlockRefWithStatus"}
           THEN {"send", "read", "ref", "recv"}
           ELSE {"send"}

\* Where a call of the API selects on ctx.Done(): in its send to the loop,
\* and for the three calls with a second select also while it waits for the
\* loop's reply.
ctxSelects(api) ==
  IF api \in {"ResetDerivationPipeline", "StartProposer", "StopProposer"}
    THEN {"send", "wait"}
    ELSE {"send"}

\* ------------------------------------------------------- the environment
\* Where a pipeline call may leave UnsafeL2Head() and EngineReady().  With
\* moves the engine may be anywhere; without, the call leaves them alone
\* (Start's Reset, the first, sets head 1 and a ready engine).
headsAfter(moves) ==
  IF moves THEN L2Heads ELSE IF unsafeL2Head = 0 THEN {1} ELSE {unsafeL2Head}

readyAfter(moves) ==
  IF moves THEN BOOLEAN ELSE IF unsafeL2Head = 0 THEN {TRUE} ELSE {engineReady}

\* The <<safe, finalized>> L2 heads the pipeline may have after a Step or a
\* Reset that left the unsafe head at u: with chain, any pair in the order
\* finalized <= safe <= unsafe that the pipeline keeps; without, the heads
\* it had.
chainAfter(chain, u) ==
  IF chain
    THEN {c \in (0..u) \X (0..u) : c[2] <= c[1]}
    ELSE {<<safeL2Head, finalizedL2Head>>}

\* The finalized L2 head after Finalize(l1Ref): the pipeline may finalize
\* L2 blocks up to the safe head.
finalizedAfter(chain) ==
  IF chain THEN finalizedL2Head..safeL2Head ELSE {finalizedL2Head}

\* The unsafe heads a proposer action may leave: it builds on the unsafe
\* head and never reaches below the safe head.
headsBuilt == {h \in L2Heads : h >= safeL2Head}

\* lastSched after a reqStep that found delayedStepReq at was and left it
\* at now: a newly scheduled delay is the last one scheduled.
schedAfter(was, now) == IF was = 0 /\ now # 0 THEN now ELSE lastSched

\* ---------------------------------------------------- rollup configuration
\* A rollup configuration has these fields; a hash, an address or a time is
\* 0 when it is the zero value, and a chain ID is <<>> when it is nil and
\* <<n>> when it is the big integer n.
validConfig ==
  [BlockTime |-> 2, ChannelTimeout |-> 123, ProposerWindowSize |-> 2,
   GenesisL1Hash |-> 1, GenesisL2Hash |-> 2, GenesisL2Time |-> 1,
   BatcherAddr |-> 1, Overhead |-> 1, Scalar |-> 1, GasLimit |-> 1234567,
   BatchInboxAddress |-> 1, DepositContractAddress |-> 1,
   L1ChainID |-> <<900>>, L2ChainID |-> <<901>>]

\* The cases of the configuration test: the modifier of each, by name.
modifier(name, c) ==
  CASE name = "BlockTimeZero" -> [c EXCEPT !.BlockTime = 0]
    [] name = "ChannelTimeoutZero" -> [c EXCEPT !.ChannelTimeout = 0]
    [] name = "ProposerWindowSizeZero" -> [c EXCEPT !.ProposerWindowSize = 0]
    [] name = "ProposerWindowSizeOne" -> [c EXCEPT !.ProposerWindowSize = 1]
    [] name = "NoL1Genesis" -> [c EXCEPT !.GenesisL1Hash = 0]
    [] name = "NoL2Genesis" -> [c EXCEPT !.GenesisL2Hash = 0]
    [] name = "GenesisHashesEqual" -> [c EXCEPT !.GenesisL2Hash = c.GenesisL1Hash]
    [] name = "GenesisL2TimeZero" -> [c EXCEPT !.GenesisL2Time = 0]
    [] name = "NoBatcherAddr" -> [c EXCEPT !.BatcherAddr = 0]
    [] name = "NoOverhead" -> [c EXCEPT !.Overhead = 0]
    [] name = "NoScalar" -> [c EXCEPT !.Scalar = 0]
    [] name = "NoGasLimit" -> [c EXCEPT !.GasLimit = 0]
    [] name = "NoBatchInboxAddress" -> [c EXCEPT !.BatchInboxAddress = 0]
    [] name = "NoDepositContractAddress" -> [c EXCEPT !.DepositContractAddress = 0]
    [] name = "NoL1ChainId" -> [c EXCEPT !.L1ChainID = <<>>]
    [] name = "NoL2ChainId" -> [c EXCEPT !.L2ChainID = <<>>]
    [] name = "ChainIDsEqual" -> [c EXCEPT !.L2ChainID = c.L1ChainID]
    [] name = "L1ChainIdNegative" -> [c EXCEPT !.L1ChainID = <<-1>>]
    [] name = "L1ChainIdZero" -> [c EXCEPT !.L1ChainID = <<0>>]
    [] name = "L2ChainIdNegative" -> [c EXCEPT !.L2ChainID = <<-1>>]
    [] name = "L2ChainIdZero" -> [c EXCEPT !.L2ChainID = <<0>>]

\* The error that the test expects of each case.
expectedErr(name) ==
  CASE name = "BlockTimeZero" -> "ErrBlockTimeZero"
    [] name = "ChannelTimeoutZero" -> "ErrMissingChannelTimeout"
    [] name \in {"ProposerWindowSizeZero", "ProposerWindowSizeOne"} ->
         "ErrInvalidProposerWindowSize"
    [] name = "NoL1Genesis" -> "ErrMissingGenesisL1Hash"
    [] name = "NoL2Genesis" -> "ErrMissingGenesisL2Hash"
    [] name = "GenesisHashesEqual" -> "ErrGenesisHashesSame"
    [] name = "GenesisL2TimeZero" -> "ErrMissingGenesisL2Time"
    [] name = "NoBatcherAddr" -> "ErrMissingBatcherAddr"
    [] name = "NoOverhead" -> "ErrMissingOverhead"
    [] name = "NoScalar" -> "ErrMissingScalar"
    [] name = "NoGasLimit" -> "ErrMissingGasLimit"
    [] name = "NoBatchInboxAddress" -> "ErrMissingBatchInboxAddress"
    [] name = "NoDepositContractAddress" -> "ErrMissingDepositContractAddress"
    [] name = "NoL1ChainId" -> "ErrMissingL1ChainID"
    [] name = "NoL2ChainId" -> "ErrMissingL2ChainID"
    [] name = "ChainIDsEqual" -> "ErrChainIDsSame"
    [] name \in {"L1ChainIdNegative", "L1ChainIdZero"} -> "ErrL1ChainIDNotPositive"
    [] name \in {"L2ChainIdNegative", "L2ChainIdZero"} -> "ErrL2ChainIDNotPositive"

TestNames ==
  {"BlockTimeZero", "ChannelTimeoutZero", "ProposerWindowSizeZero",
   "ProposerWindowSizeOne", "NoL1Genesis", "NoL2Genesis", "GenesisHashesEqual",
   "GenesisL2TimeZero", "NoBatcherAddr", "NoOverhead", "NoScalar", "NoGasLimit",
   "NoBatchInboxAddress", "NoDepositContractAddress", "NoL1ChainId", "NoL2ChainId",
   "ChainIDsEqual", "L1ChainIdNegative", "L1ChainIdZero", "L2ChainIdNegative",
   "L2ChainIdZero"}

\* The error kinds of the configuration check, in the order it applies
\* its rules.
CheckKinds ==
  <<"ErrBlockTimeZero", "ErrMissingChannelTimeout", "ErrInvalidProposerWindowSize",
    "ErrMissingGenesisL1Hash", "ErrMissingGenesisL2Hash", "ErrGenesisHashesSame",
    "ErrMissingGenesisL2Time", "ErrMissingBatcherAddr", "ErrMissingOverhead",
    "ErrMissingScalar", "ErrMissingGasLimit", "ErrMissingBatchInboxAddress",
    "ErrMissingDepositContractAddress", "ErrMissingL1ChainID", "ErrMissingL2ChainID",
    "ErrChainIDsSame", "ErrL1ChainIDNotPositive", "ErrL2ChainIDNotPositive">>

\* windowRule that rejects a window of 0 only.
windowRule_ZeroOnly(size) == size < 1

\* A proposer window of at most 1 is invalid.
windowRule(size) == size < 2

\* The rule of each error kind: TRUE when configuration c violates it.  A
\* nil chain ID is missing and is not compared.
violates(kind, c) ==
  CASE kind = "ErrBlockTimeZero" -> c.BlockTime = 0
    [] kind = "ErrMissingChannelTimeout" -> c.ChannelTimeout = 0
    [] kind = "ErrInvalidProposerWindowSize" -> windowRule(c.ProposerWindowSize)
    [] kind = "ErrMissingGenesisL1Hash" -> c.GenesisL1Hash = 0
    [] kind = "ErrMissingGenesisL2Hash" -> c.GenesisL2Hash = 0
    [] kind = "ErrGenesisHashesSame" -> c.GenesisL1Hash = c.GenesisL2Hash
    [] kind = "ErrMissingGenesisL2Time" -> c.GenesisL2Time = 0
    [] kind = "ErrMissingBatcherAddr" -> c.BatcherAddr = 0
    [] kind = "ErrMissingOverhead" -> c.Overhead = 0
    [] kind = "ErrMissingScalar" -> c.Scalar = 0
    [] kind = "ErrMissingGasLimit" -> c.GasLimit = 0
    [] kind = "ErrMissingBatchInboxAddress" -> c.BatchInboxAddress = 0
    [] kind = "ErrMissingDepositContractAddress" -> c.DepositContractAddress = 0
    [] kind = "ErrMissingL1ChainID" -> c.L1ChainID = <<>>
    [] kind = "ErrMissingL2ChainID" -> c.L2ChainID = <<>>
    [] kind = "ErrChainIDsSame" ->
         c.L1ChainID # <<>> /\ c.L2ChainID # <<>> /\ c.L1ChainID[1] = c.L2ChainID[1]
    [] kind = "ErrL1ChainIDNotPositive" -> c.L1ChainID # <<>> /\ c.L1ChainID[1] < 1
    [] kind = "ErrL2ChainIDNotPositive" -> c.L2ChainID # <<>> /\ c.L2ChainID[1] < 1

\* Check: the error of the first rule that c violates, "nil" if none.
RECURSIVE checkFrom(_, _)
checkFrom(i, c) ==
  IF i > Len(CheckKinds)
    THEN "nil"
    ELSE IF violates(CheckKinds[i], c) THEN CheckKinds[i] ELSE checkFrom(i + 1, c)

Check(c) == checkFrom(1, c)

\* ------------------------------------------------------------------- Start
InitWith(client) ==
  /\ loop = "idle"
  /\ ProposerEnabled \in BOOLEAN
  /\ ProposerStopped \in BOOLEAN
  /\ l1Head = 0
  /\ engineReady = FALSE
  /\ unsafeL2Head = 0
  /\ needsReset = FALSE
  /\ buildingOnto = 0
  /\ stepReqCh = 0
  /\ delayedStepReq = 0
  /\ stepAttempts = 0
  /\ derivationIdle = FALSE
  /\ proposerCh = "nil"
  /\ proposerTimer = [armed |-> FALSE, tick |-> 0]
  /\ calls = <<>>
  /\ resetCalls = 0
  /\ pipelineResets = 0
  /\ resetCauses = 0
  /\ startCall = StartFrame("idle", 0, "none")
  /\ stopCall = StopFrame("idle", "none")
  /\ resetCall = [pc |-> "idle", ret |-> "none"]
  /\ l1Safe = 0
  /\ l1Finalized = 0
  /\ safeL2Head = 0
  /\ finalizedL2Head = 0
  /\ lastFired = 0
  /\ lastSched = 0
  /\ sigCall = SigFrame("idle", "none", "none")
  /\ stateCall = StateFrame("idle", "none", <<>>, FALSE)
  /\ L2SyncCl = client
  /\ fetchCh = <<>>
  /\ closeCall = [pc |-> "idle"]
  /\ stepped = FALSE
  /\ cfg = validConfig
  /\ checkErr = "unchecked"

\* The driver as constructed without a backup sync client.
Init == InitWith(FALSE)

\* Start: derivation.Reset(), then the loop goroutine runs its prologue
\* (the first reqStep, the proposer timer) up to the top of the for loop.
Start(moves, chain) ==
  /\ loop = "idle"
  /\ resetCalls' = resetCalls + 1
  /\ needsReset' = FALSE
  /\ engineReady' \in readyAfter(moves)
  /\ unsafeL2Head' \in headsAfter(moves)
  /\ LET r == reqStep(stepReqCh, delayedStepReq, stepAttempts)
     IN  /\ stepReqCh' = r[1]
         /\ delayedStepReq' = r[2]
  /\ proposerTimer' = NewTimer
  /\ \E c \in chainAfter(chain, unsafeL2Head') :
       safeL2Head' = c[1] /\ finalizedL2Head' = c[2]
  /\ calls' = <<Call("Reset", "start")>>
  /\ loop' = "top"
  /\ UNCHANGED <<ProposerEnabled, ProposerStopped, l1Head, stepAttempts, derivationIdle,
                 proposerCh, pipelineResets, resetCauses, propVars, callVars>>
  /\ UNCHANGED extVars
  /\ UNCHANGED <<l1SigVars, histVars, apiVars>>

\* -------------------------------------------------------- top of the loop
\* proposerMayAct without the EngineReady() conjunct.
proposerMayAct_IgnoresEngine ==
  /\ ProposerEnabled
  /\ ~ProposerStopped
  /\ l1Head # 0

\* The condition of the if at the top of the for loop.
proposerMayAct ==
  /\ ProposerEnabled
  /\ ~ProposerStopped
  /\ l1Head # 0
  /\ engineReady

LoopTop ==
  /\ loop = "top"
  /\ loop' = "select"
  /\ IF proposerMayAct
       THEN IF buildingOnto # unsafeL2Head
              THEN /\ proposerTimer' \in planProposerAction(proposerTimer)
                   /\ proposerCh' = "C"
                   /\ calls' = <<Call("PlanNextProposerAction", "top")>>
              ELSE /\ calls' = <<>>
                   /\ UNCHANGED <<proposerTimer, proposerCh>>
       ELSE /\ proposerCh' = "nil"
            /\ calls' = <<>>
            /\ UNCHANGED proposerTimer
  /\ UNCHANGED <<ProposerEnabled, ProposerStopped, l1Head, stepReqCh, delayedStepReq,
                 stepAttempts, derivationIdle, pipeVars, propVars, callVars>>
  /\ UNCHANGED extVars
  /\ UNCHANGED auxVars

\* ------------------------------------------------------ derivation step
\* What the environment lets Step return.
AllResults == {"ok", "eof", "ned", "critical", "temp", "other", "reset"}

StepResults ==
  {"ok", "eof", "ned", "critical"} \cup
  (IF stepAttempts < MaxAttempts THEN {"temp", "other"} ELSE {}) \cup
  (IF stepAttempts < MaxAttempts /\ resetCauses < MaxResets THEN {"reset"} ELSE {})

\* The branches of the stepReqCh case, after stepAttempts += 1 (a1), with the
\* step request already taken from the channel.  Each returns what the branch
\* leaves: stepAttempts, len(stepReqCh), delayedStepReq, the idle metric, the
\* number of Reset() and RecordPipelineReset() calls, whether the loop returns.
\* onEOF that requests the next step like a success.
onEOF_ReRequests(a1, delayed) ==
  LET r == reqStep(0, delayed, 0)
  IN  [attempts |-> 0, ch |-> r[1], delayed |-> r[2], idle |-> TRUE,
       resets |-> 0, metrics |-> 0, exit |-> FALSE]

onEOF(a1, delayed) ==
  [attempts |-> 0, ch |-> 0, delayed |-> delayed, idle |-> TRUE,
   resets |-> 0, metrics |-> 0, exit |-> FALSE]

\* onErrReset that forgets the Reset() call.
onErrReset_NoReset(a1, delayed) ==
  [attempts |-> a1, ch |-> 0, delayed |-> delayed, idle |-> FALSE,
   resets |-> 0, metrics |-> 1, exit |-> FALSE]

\* onErrReset that clears stepAttempts.
onErrReset_ZeroAttempts(a1, delayed) ==
  [attempts |-> 0, ch |-> 0, delayed |-> delayed, idle |-> FALSE,
   resets |-> 1, metrics |-> 1, exit |-> FALSE]

\* onErrReset that requests the next step.
onErrReset_ReRequests(a1, delayed) ==
  LET r == reqStep(0, delayed, a1)
  IN  [attempts |-> a1, ch |-> r[1], delayed |-> r[2], idle |-> FALSE,
       resets |-> 1, metrics |-> 1, exit |-> FALSE]

onErrReset(a1, delayed) ==
  [attempts |-> a1, ch |-> 0, delayed |-> delayed, idle |-> FALSE,
   resets |-> 1, metrics |-> 1, exit |-> FALSE]

\* onErrTemporary that does not count the failed attempt.
onErrTemporary_NotCounted(a1, delayed) ==
  LET r == reqStep(0, delayed, a1 - 1)
  IN  [attempts |-> a1 - 1, ch |-> r[1], delayed |-> r[2], idle |-> FALSE,
       resets |-> 0, metrics |-> 0, exit |-> FALSE]

onErrTemporary(a1, delayed) ==
  LET r == reqStep(0, delayed, a1)
  IN  [attempts |-> a1, ch |-> r[1], delayed |-> r[2], idle |-> FALSE,
       resets |-> 0, metrics |-> 0, exit |-> FALSE]

\* onErrCritical handled like an unclassified error: retry, no return.
onErrCritical_Continues(a1, delayed) ==
  LET r == reqStep(0, delayed, a1)
  IN  [attempts |-> a1, ch |-> r[1], delayed |-> r[2], idle |-> FALSE,
       resets |-> 0, metrics |-> 0, exit |-> FALSE]

onErrCritical(a1, delayed) ==
  [attempts |-> a1, ch |-> 0, delayed |-> delayed, idle |-> FALSE,
   resets |-> 0, metrics |-> 0, exit |-> TRUE]

\* onNotEnoughData that keeps the attempt counted, like a temporary error.
onNotEnoughData_CountsAttempt(a1, delayed) ==
  LET r == reqStep(0, delayed, a1)
  IN  [attempts |-> a1, ch |-> r[1], delayed |-> r[2], idle |-> FALSE,
       resets |-> 0, metrics |-> 0, exit |-> FALSE]

onNotEnoughData(a1, delayed) ==
  LET r == reqStep(0, delayed, 0)
  IN  [attempts |-> 0, ch |-> r[1], delayed |-> r[2], idle |-> FALSE,
       resets |-> 0, metrics |-> 0, exit |-> FALSE]

onOtherError(a1, delayed) ==
  LET r == reqStep(0, delayed, a1)
  IN  [attempts |-> a1, ch |-> r[1], delayed |-> r[2], idle |-> FALSE,
       resets |-> 0, metrics |-> 0, exit |-> FALSE]

\* onSuccess that drops a delayed step left pending.
onSuccess_ClearsDelay(a1, delayed) ==
  LET r == reqStep(0, 0, 0)
  IN  [attempts |-> 0, ch |-> r[1], delayed |-> r[2], idle |-> FALSE,
       resets |-> 0, metrics |-> 0, exit |-> FALSE]

\* The last branch: stepAttempts = 0, then reqStep; delayedStepReq is left
\* as it is.
onSuccess(a1, delayed) ==
  LET r == reqStep(0, delayed, 0)
  IN  [attempts |-> 0, ch |-> r[1], delayed |-> r[2], idle |-> FALSE,
       resets |-> 0, metrics |-> 0, exit |-> FALSE]

stepOutcome(res, a1, delayed) ==
  CASE res = "eof"      -> onEOF(a1, delayed)
    [] res = "reset"    -> onErrReset(a1, delayed)
    [] res = "temp"     -> onErrTemporary(a1, delayed)
    [] res = "critical" -> onErrCritical(a1, delayed)
    [] res = "ned"      -> onNotEnoughData(a1, delayed)
    [] res = "other"    -> onOtherError(a1, delayed)
    [] OTHER            -> onSuccess(a1, delayed)

\* n copies of call c.
Repeat(c, n) == [i \in 1..n |-> c]

\* case <-stepReqCh
StepReq(allowed, moves, chain) ==
  /\ loop = "select"
  /\ stepReqCh = 1
  /\ \E res \in StepResults \cap allowed :
       LET out == stepOutcome(res, stepAttempts + 1, delayedStepReq)
       IN  /\ stepAttempts' = out.attempts
           /\ stepReqCh' = out.ch
           /\ delayedStepReq' = out.delayed
           /\ derivationIdle' = out.idle
           /\ resetCalls' = resetCalls + out.resets
           /\ pipelineResets' = pipelineResets + out.metrics
           /\ resetCauses' = IF res = "reset" THEN resetCauses + 1 ELSE resetCauses
           /\ needsReset' = ((needsReset \/ res = "reset") /\ out.resets = 0)
           /\ loop' = IF out.exit THEN "exited" ELSE "top"
           /\ calls' = calls \o <<Call("Step", res)>>
                             \o Repeat(Call("Reset", "step"), out.resets)
                             \o Repeat(Call("RecordPipelineReset", "step"), out.metrics)
           /\ lastFired' = IF out.attempts = 0 THEN 0 ELSE lastFired
           /\ lastSched' = IF out.attempts = 0 THEN 0
                           ELSE schedAfter(delayedStepReq, out.delayed)
  /\ unsafeL2Head' \in headsAfter(moves)
  /\ engineReady' \in readyAfter(moves)
  /\ \E c \in chainAfter(chain, unsafeL2Head') :
       safeL2Head' = c[1] /\ finalizedL2Head' = c[2]
  /\ stepped' = TRUE
  /\ UNCHANGED <<ProposerEnabled, ProposerStopped, l1Head, proposerCh, timerVars,
                 propVars, callVars>>
  /\ UNCHANGED <<syncVars, closeCall, confVars>>
  /\ UNCHANGED <<l1SigVars, apiVars>>

\* case <-delayedStepReq
DelayedStepReq ==
  /\ loop = "select"
  /\ delayedStepReq # 0
  /\ delayedStepReq' = 0
  /\ stepReqCh' = step(stepReqCh)
  /\ lastFired' = IF stepAttempts > 0 THEN delayedStepReq ELSE lastFired
  /\ loop' = "top"
  /\ UNCHANGED <<ProposerEnabled, ProposerStopped, l1Head, stepAttempts, derivationIdle,
                 proposerCh, calls, timerVars, pipeVars, propVars, callVars>>
  /\ UNCHANGED extVars
  /\ UNCHANGED <<l1SigVars, chainVars, lastSched, apiVars>>

\* onSignal whose L1 safe case goes on to request a step.
onSignal_SafeRequestsStep(kind, arg) ==
  CASE kind = "head" ->
         [calls |-> <<Call("HandleNewL1HeadBlock", arg)>>, req |-> TRUE]
    [] kind = "safe" ->
         [calls |-> <<Call("HandleNewL1SafeBlock", arg)>>, req |-> TRUE]
    [] kind = "finalized" ->
         [calls |-> <<Call("HandleNewL1FinalizedBlock", arg), Call("Finalize", arg)>>,
          req |-> TRUE]
    [] kind = "payload" ->
         [calls |-> <<Call("AddUnsafePayload", arg), Call("RecordReceivedUnsafePayload", arg)>>,
          req |-> TRUE]

\* onSignal whose payload case queues the payload without requesting a step.
onSignal_PayloadNoStep(kind, arg) ==
  CASE kind = "head" ->
         [calls |-> <<Call("HandleNewL1HeadBlock", arg)>>, req |-> TRUE]
    [] kind = "safe" ->
         [calls |-> <<Call("HandleNewL1SafeBlock", arg)>>, req |-> FALSE]
    [] kind = "finalized" ->
         [calls |-> <<Call("HandleNewL1FinalizedBlock", arg), Call("Finalize", arg)>>,
          req |-> TRUE]
    [] kind = "payload" ->
         [calls |-> <<Call("AddUnsafePayload", arg), Call("RecordReceivedUnsafePayload", arg)>>,
          req |-> FALSE]

\* onSignal whose L1 finalized case stores the reference and requests a
\* step without calling Finalize.
onSignal_FinalizedNoFinalize(kind, arg) ==
  CASE kind = "head" ->
         [calls |-> <<Call("HandleNewL1HeadBlock", arg)>>, req |-> TRUE]
    [] kind = "safe" ->
         [calls |-> <<Call("HandleNewL1SafeBlock", arg)>>, req |-> FALSE]
    [] kind = "finalized" ->
         [calls |-> <<Call("HandleNewL1FinalizedBlock", arg)>>, req |-> TRUE]
    [] kind = "payload" ->
         [calls |-> <<Call("AddUnsafePayload", arg), Call("RecordReceivedUnsafePayload", arg)>>,
          req |-> TRUE]

\* The four signal cases of the select, by kind of signal: the calls on the
\* collaborators and whether reqStep follows.
onSignal(kind, arg) ==
  CASE kind = "head" ->
         [calls |-> <<Call("HandleNewL1HeadBlock", arg)>>, req |-> TRUE]
    [] kind = "safe" ->
         [calls |-> <<Call("HandleNewL1SafeBlock", arg)>>, req |-> FALSE]
    [] kind = "finalized" ->
         [calls |-> <<Call("HandleNewL1FinalizedBlock", arg), Call("Finalize", arg)>>,
          req |-> TRUE]
    [] kind = "payload" ->
         [calls |-> <<Call("AddUnsafePayload", arg), Call("RecordReceivedUnsafePayload", arg)>>,
          req |-> TRUE]

\* handleL1 whose safe case stores the reference as the L1 head.
handleL1_SafeMovesHead(kind, arg) ==
  [head |-> IF kind \in {"head", "safe"} THEN arg ELSE l1Head,
   safe |-> l1Safe,
   finalized |-> IF kind = "finalized" THEN arg ELSE l1Finalized]

\* The L1 state after the case of a signal: HandleNewL1HeadBlock,
\* HandleNewL1SafeBlock and HandleNewL1FinalizedBlock each store the
\* reference they are given; a payload leaves the L1 state alone.
handleL1(kind, arg) ==
  [head |-> IF kind = "head" THEN arg ELSE l1Head,
   safe |-> IF kind = "safe" THEN arg ELSE l1Safe,
   finalized |-> IF kind = "finalized" THEN arg ELSE l1Finalized]

\* What a signal of each kind carries: an L1 block reference, or a payload
\* (0: a payload left unnamed).
SignalArgs(kind) == IF kind = "payload" THEN {0} ELSE L1Refs

\* case newL1Head := <-s.l1HeadSig, newL1Safe := <-s.l1SafeSig,
\* newL1Finalized := <-s.l1FinalizedSig or payload := <-s.unsafeL2Payloads.
\* The sender's send is the rendezvous: with called, the sender is the
\* call in sigCall, which returns nil, and the value received is the one
\* it sends (one of args if the call left it unnamed); without, the sender
\* is left unnamed and the value is one of args.
SignalOf(kind, called, chain, args) ==
  /\ loop = "select"
  /\ IF called
       THEN /\ sigCall.pc = "send"
            /\ sigCall.kind = kind
            /\ sigCall' = SigFrame("done", kind, "nil")
       ELSE UNCHANGED sigCall
  /\ \E arg \in IF called /\ sigCall.arg # 0 THEN {sigCall.arg} ELSE args :
       /\ l1Head' = handleL1(kind, arg).head
       /\ l1Safe' = handleL1(kind, arg).safe
       /\ l1Finalized' = handleL1(kind, arg).finalized
       /\ calls' = calls \o onSignal(kind, arg).calls
       /\ LET r == IF onSignal(kind, arg).req
                     THEN reqStep(stepReqCh, delayedStepReq, stepAttempts)
                     ELSE <<stepReqCh, delayedStepReq>>
          IN  /\ stepReqCh' = r[1]
              /\ delayedStepReq' = r[2]
              /\ lastSched' = schedAfter(delayedStepReq, r[2])
  /\ finalizedL2Head' \in finalizedAfter(chain /\ kind = "finalized")
  /\ loop' = "top"
  /\ UNCHANGED <<ProposerEnabled, ProposerStopped, stepAttempts, derivationIdle,
                 proposerCh, timerVars, pipeVars, propVars, callVars>>
  /\ UNCHANGED extVars
  /\ UNCHANGED <<safeL2Head, lastFired, stateCall>>

\* OnL1Head, OnL1Safe, OnL1Finalized, OnUnsafeL2Payload: the caller blocks
\* in the select with its reference or payload, one of args (0: a value
\* left unnamed).
SigCallOf(kinds, args) ==
  /\ sigCall.pc \in {"idle", "done"}
  /\ \E kind \in kinds, arg \in args :
       sigCall' = [SigFrame("send", kind, "none") EXCEPT !.arg = arg]
  /\ UNCHANGED <<loopVars, ProposerEnabled, timerVars, pipeVars, propVars, callVars>>
  /\ UNCHANGED extVars
  /\ UNCHANGED <<l1SigVars, chainVars, histVars, stateCall>>

SigCallBegin == SigCallOf(SigKinds, {0})

\* case <-ctx.Done()
SigCallCtxDone ==
  /\ sigCall.pc \in ctxSelects(sigCall.kind)
  /\ sigCall' = SigFrame("done", sigCall.kind, "ctx")
  /\ UNCHANGED <<loopVars, ProposerEnabled, timerVars, pipeVars, propVars, callVars>>
  /\ UNCHANGED extVars
  /\ UNCHANGED <<l1SigVars, chainVars, histVars, stateCall>>

Signal(kind, called, chain) == SignalOf(kind, called, chain, SignalArgs(kind))

\* The loop takes the signal of the call in sigCall.
SignalFromCall == \E kind \in SigKinds : Signal(kind, TRUE, FALSE)

L1HeadSig == Signal("head", FALSE, FALSE)

L1SafeSig == Signal("safe", FALSE, FALSE)

L1FinalizedSig == Signal("finalized", FALSE, FALSE)

UnsafeL2Payload == Signal("payload", FALSE, FALSE)

\* The l1FinalizedSig case over a pipeline whose Finalize moves the
\* finalized L2 head.
L1FinalizedMoves == Signal("finalized", FALSE, TRUE)

\* ------------------------------------------ SyncStatus, BlockRefWithStatus
StateCalls == {"SyncStatus", "BlockRefWithStatus"}

\* The caller: makes the unbuffered wait channel and blocks in the select.
StateCallBegin ==
  /\ stateCall.pc \in {"idle", "done"}
  /\ \E kind \in StateCalls : stateCall' = StateFrame("send", kind, <<>>, FALSE)
  /\ UNCHANGED <<loopVars, ProposerEnabled, timerVars, pipeVars, propVars, callVars>>
  /\ UNCHANGED extVars
  /\ UNCHANGED <<l1SigVars, chainVars, histVars, sigCall>>

\* case <-ctx.Done()
StateCallCtxDone ==
  /\ stateCall.pc \in ctxSelects(stateCall.kind)
  /\ stateCall' = StateFrame("done", stateCall.kind, "ctx", FALSE)
  /\ UNCHANGED <<loopVars, ProposerEnabled, timerVars, pipeVars, propVars, callVars>>
  /\ UNCHANGED extVars
  /\ UNCHANGED <<l1SigVars, chainVars, histVars, sigCall>>

\* onStateReq for a wait channel that takes the send without a receiver.
onStateReq_NoWait == [blocks |-> FALSE]

\* What the stateReq case does: respCh <- struct{}{} on the caller's
\* unbuffered channel blocks the loop until the caller receives.
onStateReq == [blocks |-> TRUE]

\* case respCh := <-s.stateReq (the caller's send is the rendezvous)
StateReq ==
  /\ loop = "select"
  /\ stateCall.pc = "send"
  /\ stateCall' = StateFrame("read", stateCall.kind, <<>>, ~onStateReq.blocks)
  /\ loop' = IF onStateReq.blocks THEN "stateResp" ELSE "top"
  /\ UNCHANGED <<ProposerEnabled, ProposerStopped, l1Head, stepReqCh, delayedStepReq,
                 stepAttempts, derivationIdle, proposerCh, calls, timerVars, pipeVars,
                 propVars, callVars>>
  /\ UNCHANGED extVars
  /\ UNCHANGED <<l1SigVars, chainVars, histVars, sigCall>>

\* syncStatus that takes SafeL2 and FinalizedL2 from each other's getter.
syncStatus_SwapsSafeAndFinalized(i) ==
  CASE i = 1 -> <<l1Head, l1Safe, l1Finalized>>
    [] i = 2 -> unsafeL2Head
    [] i = 3 -> finalizedL2Head
    [] i = 4 -> safeL2Head

\* syncStatus: the i-th value it reads, in the order of the struct literal:
\* HeadL1, SafeL1, FinalizedL1 from the L1 state, then UnsafeL2, SafeL2 and
\* FinalizedL2 from the pipeline, one getter call each.
syncStatus(i) ==
  CASE i = 1 -> <<l1Head, l1Safe, l1Finalized>>
    [] i = 2 -> unsafeL2Head
    [] i = 3 -> safeL2Head
    [] i = 4 -> finalizedL2Head

StatusFields == 4

\* resp := s.syncStatus(), one read at a time; BlockRefWithStatus then
\* fetches the block reference from the engine before it receives.
StateCallRead ==
  /\ stateCall.pc = "read"
  /\ LET status == Append(stateCall.status, syncStatus(Len(stateCall.status) + 1))
         next == IF Len(status) < StatusFields THEN "read"
                 ELSE IF stateCall.kind = "BlockRefWithStatus" THEN "ref" ELSE "recv"
     IN  stateCall' = [stateCall EXCEPT !.pc = next, !.status = status]
  /\ UNCHANGED <<loopVars, ProposerEnabled, timerVars, pipeVars, propVars, callVars>>
  /\ UNCHANGED extVars
  /\ UNCHANGED <<l1SigVars, chainVars, histVars, sigCall>>

\* ref, err := s.l2.L2BlockRefByNumber(ctx, num)
StateCallRef ==
  /\ stateCall.pc = "ref"
  /\ stateCall' = [stateCall EXCEPT !.pc = "recv"]
  /\ UNCHANGED <<loopVars, ProposerEnabled, timerVars, pipeVars, propVars, callVars>>
  /\ UNCHANGED extVars
  /\ UNCHANGED <<l1SigVars, chainVars, histVars, sigCall>>

\* <-wait: completes the loop's send, which ends the stateReq case; the
\* call returns the status it read.
StateCallReturn ==
  /\ stateCall.pc = "recv"
  /\ loop = "stateResp" \/ stateCall.sent
  /\ stateCall' = StateFrame("done", stateCall.kind, "ok", FALSE)
  /\ loop' = IF loop = "stateResp" THEN "top" ELSE loop
  /\ UNCHANGED <<ProposerEnabled, ProposerStopped, l1Head, stepReqCh, delayedStepReq,
                 stepAttempts, derivationIdle, proposerCh, calls, timerVars, pipeVars,
                 propVars, callVars>>
  /\ UNCHANGED extVars
  /\ UNCHANGED <<l1SigVars, chainVars, histVars, sigCall>>

\* ------------------------------------------------- ResetDerivationPipeline
\* ResetDerivationPipeline that resets the pipeline on the caller's task
\* instead of asking the loop.
ResetCallBegin_ResetsItself ==
  /\ resetCall.pc \in {"idle", "done"}
  /\ resetCauses < MaxResets
  /\ resetCall' = [pc |-> "done", ret |-> "nil"]
  /\ resetCalls' = resetCalls + 1
  /\ resetCauses' = resetCauses + 1
  /\ calls' = Append(calls, Call("Reset", "force"))
  /\ UNCHANGED <<loop, ProposerEnabled, ProposerStopped, l1Head, stepReqCh, delayedStepReq,
                 stepAttempts, derivationIdle, proposerCh, timerVars, engineReady,
                 unsafeL2Head, needsReset, pipelineResets, propVars, startCall, stopCall>>
  /\ UNCHANGED extVars
  /\ UNCHANGED auxVars

\* The caller: builds respCh and blocks in the first select.
ResetCallBegin ==
  /\ resetCall.pc \in {"idle", "done"}
  /\ resetCauses < MaxResets
  /\ resetCall' = [pc |-> "send", ret |-> "none"]
  /\ UNCHANGED <<loopVars, ProposerEnabled, timerVars, pipeVars, propVars, startCall, stopCall>>
  /\ UNCHANGED extVars
  /\ UNCHANGED auxVars

\* <-ctx.Done() in either select.
ResetCallCtxDone ==
  /\ resetCall.pc \in ctxSelects("ResetDerivationPipeline")
  /\ resetCall' = [pc |-> "done", ret |-> "ctx"]
  /\ UNCHANGED <<loopVars, ProposerEnabled, timerVars, pipeVars, propVars, startCall, stopCall>>
  /\ UNCHANGED extVars
  /\ UNCHANGED auxVars

\* <-respCh: the ack channel was closed by the loop.
ResetCallReturn ==
  /\ resetCall.pc = "wait"
  /\ resetCall' = [pc |-> "done", ret |-> "nil"]
  /\ UNCHANGED <<loopVars, ProposerEnabled, timerVars, pipeVars, propVars, startCall, stopCall>>
  /\ UNCHANGED extVars
  /\ UNCHANGED auxVars

\* onForceReset that does not record the metric.
onForceReset_NoMetric == [resets |-> 1, metrics |-> 0]

\* onForceReset that acknowledges without resetting the pipeline.
onForceReset_NoReset == [resets |-> 0, metrics |-> 1]

\* What the forceReset case does: Reset() and RecordPipelineReset() calls.
onForceReset == [resets |-> 1, metrics |-> 1]

\* case respCh := <-s.forceReset
ForceReset(moves, chain) ==
  /\ loop = "select"
  /\ resetCall.pc = "send"
  /\ resetCall' = [resetCall EXCEPT !.pc = "wait"]
  /\ resetCalls' = resetCalls + onForceReset.resets
  /\ pipelineResets' = pipelineResets + onForceReset.metrics
  /\ resetCauses' = resetCauses + 1
  /\ needsReset' = (needsReset /\ onForceReset.resets = 0)
  /\ unsafeL2Head' \in headsAfter(moves /\ onForceReset.resets > 0)
  /\ engineReady' \in readyAfter(moves /\ onForceReset.resets > 0)
  /\ calls' = calls \o Repeat(Call("Reset", "force"), onForceReset.resets)
                    \o Repeat(Call("RecordPipelineReset", "force"), onForceReset.metrics)
  /\ loop' = "top"
  /\ UNCHANGED <<ProposerEnabled, ProposerStopped, l1Head, stepReqCh, delayedStepReq,
                 stepAttempts, derivationIdle, proposerCh, timerVars, propVars,
                 startCall, stopCall>>
  /\ UNCHANGED extVars
  /\ \E c \in chainAfter(chain /\ onForceReset.resets > 0, unsafeL2Head') :
       safeL2Head' = c[1] /\ finalizedL2Head' = c[2]
  /\ UNCHANGED <<l1SigVars, histVars, apiVars>>

\* ------------------------------------------------------ the reply channels
\* make(chan error, 1) and make(chan hashAndError, 1): the capacity of the
\* channel a StartProposer or StopProposer call makes for the loop's reply.
ReplyCap == 1

\* The messages buffered in the reply channel of a call's frame: the call
\* makes the channel when it starts, and the loop's reply stays in it
\* while the call waits.
Buffered(frame) == IF frame.pc = "wait" THEN 1 ELSE 0

\* replySend on a channel without a buffer.
replySend_Unbuffered(buffered) == [blocks |-> TRUE]

\* The loop's send on a reply channel that holds buffered messages: it
\* blocks the loop when the buffer is full.
replySend(buffered) == [blocks |-> buffered >= ReplyCap]

\* ----------------------------------------------------------- StartProposer
\* The caller: returns at once when the proposer is disabled, else builds the
\* request and blocks in the first select.
startProposerEntry(enabled, blockHash) ==
  IF ~enabled
    THEN StartFrame("done", 0, "disabled")
    ELSE StartFrame("send", blockHash, "none")

StartProposerBegin ==
  /\ startCall.pc \in {"idle", "done"}
  /\ \E blockHash \in L2Heads :
       startCall' = startProposerEntry(ProposerEnabled, blockHash)
  /\ UNCHANGED <<loopVars, ProposerEnabled, timerVars, pipeVars, propVars, stopCall, resetCall>>
  /\ UNCHANGED extVars
  /\ UNCHANGED auxVars

\* <-ctx.Done() in either select.
StartProposerCtxDone ==
  /\ startCall.pc \in ctxSelects("StartProposer")
  /\ startCall' = StartFrame("done", 0, "ctx")
  /\ UNCHANGED <<loopVars, ProposerEnabled, timerVars, pipeVars, propVars, stopCall, resetCall>>
  /\ UNCHANGED extVars
  /\ UNCHANGED auxVars

\* e := <-h.err: the error sent, or nil from the closed channel; the
\* receive lets a loop that is blocked in its send go on.
StartProposerReturn ==
  /\ startCall.pc = "wait"
  /\ startCall' = StartFrame("done", 0, IF startCall.reply = "closed" THEN "nil"
                                         ELSE startCall.reply)
  /\ loop' = IF loop = "startResp" THEN "top" ELSE loop
  /\ UNCHANGED <<ProposerStopped, l1Head, stepReqCh, delayedStepReq, stepAttempts,
                 derivationIdle, proposerCh, calls>>
  /\ UNCHANGED <<ProposerEnabled, timerVars, pipeVars, propVars, stopCall, resetCall>>
  /\ UNCHANGED extVars
  /\ UNCHANGED auxVars

\* onStartProposer without the hash comparison.
onStartProposer_NoHashCheck(stopped, unsafeHead, hash) ==
  IF ~stopped
    THEN [reply |-> "already running", stopped |-> stopped, plan |-> FALSE]
    ELSE [reply |-> "closed", stopped |-> FALSE, plan |-> TRUE]

\* onStartProposer that reports the mismatch and falls through to the start.
onStartProposer_StartsOnMismatch(stopped, unsafeHead, hash) ==
  IF ~stopped
    THEN [reply |-> "already running", stopped |-> stopped, plan |-> FALSE]
  ELSE IF unsafeHead # hash
    THEN [reply |-> "hash mismatch", stopped |-> FALSE, plan |-> TRUE]
  ELSE [reply |-> "closed", stopped |-> FALSE, plan |-> TRUE]

\* The startProposer case: its answer on resp.err (an error, or "closed"),
\* the ProposerStopped it leaves, and whether it calls planProposerAction.
onStartProposer(stopped, unsafeHead, hash) ==
  IF ~stopped
    THEN [reply |-> "already running", stopped |-> stopped, plan |-> FALSE]
  ELSE IF unsafeHead # hash
    THEN [reply |-> "hash mismatch", stopped |-> stopped, plan |-> FALSE]
  ELSE [reply |-> "closed", stopped |-> FALSE, plan |-> TRUE]

\* case resp := <-s.startProposer
StartProposerReq ==
  /\ loop = "select"
  /\ startCall.pc = "send"
  /\ LET out == onStartProposer(ProposerStopped, unsafeL2Head, startCall.hash)
     IN  /\ startCall' = [startCall EXCEPT !.pc = "wait", !.reply = out.reply,
                            !.sawStopped = ProposerStopped, !.sawHead = unsafeL2Head]
         /\ ProposerStopped' = out.stopped
         /\ IF out.plan
              THEN /\ proposerTimer' \in planProposerAction(proposerTimer)
                   /\ proposerCh' = "C"
                   /\ calls' = Append(calls, Call("PlanNextProposerAction", "start"))
              ELSE UNCHANGED <<proposerTimer, proposerCh, calls>>
         /\ loop' = IF out.reply # "closed" /\ replySend(Buffered(startCall)).blocks
                       THEN "startResp"
                       ELSE "top"
  /\ UNCHANGED <<ProposerEnabled, l1Head, stepReqCh, delayedStepReq, stepAttempts,
                 derivationIdle, pipeVars, propVars, stopCall, resetCall>>
  /\ UNCHANGED extVars
  /\ UNCHANGED auxVars

\* ------------------------------------------------------------ StopProposer
\* stopProposerEntry without the ProposerEnabled check.
stopProposerEntry_NoCheck(enabled) == StopFrame("send", "none")

\* The caller: returns at once when the proposer is disabled, else builds
\* respCh and blocks in the first select.
stopProposerEntry(enabled) ==
  IF ~enabled
    THEN StopFrame("done", [hash |-> 0, err |-> "disabled"])
    ELSE StopFrame("send", "none")

StopProposerBegin ==
  /\ stopCall.pc \in {"idle", "done"}
  /\ stopCall' = stopProposerEntry(ProposerEnabled)
  /\ UNCHANGED <<loopVars, ProposerEnabled, timerVars, pipeVars, propVars, startCall, resetCall>>
  /\ UNCHANGED extVars
  /\ UNCHANGED auxVars

StopProposerCtxDone ==
  /\ stopCall.pc \in ctxSelects("StopProposer")
  /\ stopCall' = StopFrame("done", [hash |-> 0, err |-> "ctx"])
  /\ UNCHANGED <<loopVars, ProposerEnabled, timerVars, pipeVars, propVars, startCall, resetCall>>
  /\ UNCHANGED extVars
  /\ UNCHANGED auxVars

\* he := <-respCh; the receive lets a loop that is blocked in its send go on.
StopProposerReturn ==
  /\ stopCall.pc = "wait"
  /\ stopCall' = StopFrame("done", stopCall.reply)
  /\ loop' = IF loop = "stopResp" THEN "top" ELSE loop
  /\ UNCHANGED <<ProposerStopped, l1Head, stepReqCh, delayedStepReq, stepAttempts,
                 derivationIdle, proposerCh, calls>>
  /\ UNCHANGED <<ProposerEnabled, timerVars, pipeVars, propVars, startCall, resetCall>>
  /\ UNCHANGED extVars
  /\ UNCHANGED auxVars

\* onStopProposer that answers without setting ProposerStopped.
onStopProposer_NoStop(stopped, unsafeHead) ==
  IF stopped
    THEN [he |-> [hash |-> 0, err |-> "not running"], stopped |-> stopped]
    ELSE [he |-> [hash |-> unsafeHead, err |-> "nil"], stopped |-> stopped]

\* The stopProposer case: the hashAndError sent and the new ProposerStopped.
onStopProposer(stopped, unsafeHead) ==
  IF stopped
    THEN [he |-> [hash |-> 0, err |-> "not running"], stopped |-> stopped]
    ELSE [he |-> [hash |-> unsafeHead, err |-> "nil"], stopped |-> TRUE]

\* case respCh := <-s.stopProposer
StopProposerReq ==
  /\ loop = "select"
  /\ stopCall.pc = "send"
  /\ LET out == onStopProposer(ProposerStopped, unsafeL2Head)
     IN  /\ stopCall' = [stopCall EXCEPT !.pc = "wait", !.reply = out.he,
                           !.sawStopped = ProposerStopped, !.sawHead = unsafeL2Head]
         /\ ProposerStopped' = out.stopped
  /\ loop' = IF replySend(Buffered(stopCall)).blocks THEN "stopResp" ELSE "top"
  /\ UNCHANGED <<ProposerEnabled, l1Head, stepReqCh, delayedStepReq, stepAttempts,
                 derivationIdle, proposerCh, calls, timerVars, pipeVars, propVars,
                 startCall, resetCall>>
  /\ UNCHANGED extVars
  /\ UNCHANGED auxVars

\* ---------------------------------------------------------- proposer action
\* case <-proposerCh: RunNextProposerAction returns (payload, err); the
\* proposer may move its parent and the engine's unsafe head.  pub is the
\* publishing: "none" (no network or no payload), "ok" or "err".
\* What the handler does once RunNextProposerAction has returned err (TRUE:
\* an error) and left the unsafe head at head: whether the loop returns, the
\* calls it makes before planning (pub: "none" when there is no network or
\* no payload, else the outcome of PublishL2Payload), whether it plans the
\* next action, and the ProposerStopped and unsafe head it leaves.
onProposerAction_ErrorContinues(err, pub, stopped, head) ==
  [exit |-> FALSE,
   made |-> (IF err \/ pub = "none" THEN <<>> ELSE <<Call("PublishL2Payload", pub)>>)
            \o (IF ~err /\ pub = "err" THEN <<Call("RecordPublishingError", "-")>> ELSE <<>>),
   plan |-> TRUE, stopped |-> stopped, head |-> head]

onProposerAction_PublishErrorHalts(err, pub, stopped, head) ==
  IF err
    THEN [exit |-> TRUE, made |-> <<>>, plan |-> FALSE, stopped |-> stopped, head |-> head]
    ELSE [exit |-> FALSE,
          made |-> (IF pub = "none" THEN <<>> ELSE <<Call("PublishL2Payload", pub)>>)
                   \o (IF pub = "err" THEN <<Call("RecordPublishingError", "-")>> ELSE <<>>),
          plan |-> pub # "err",
          stopped |-> (stopped \/ pub = "err"), head |-> head]

onProposerAction(err, pub, stopped, head) ==
  IF err
    THEN [exit |-> TRUE, made |-> <<>>, plan |-> FALSE, stopped |-> stopped, head |-> head]
    ELSE [exit |-> FALSE,
          made |-> (IF pub = "none" THEN <<>> ELSE <<Call("PublishL2Payload", pub)>>)
                   \o (IF pub = "err" THEN <<Call("RecordPublishingError", "-")>> ELSE <<>>),
          plan |-> TRUE, stopped |-> stopped, head |-> head]

\* The result of RunNextProposerAction as logged in calls: its error and the
\* unsafe head the engine has when it returns.
RunResult(err, head) == [err |-> err, head |-> head]

ProposerAction ==
  /\ loop = "select"
  /\ proposerCh = "C"
  /\ proposerTimer.tick = 1
  /\ buildingOnto' \in L2Heads
  /\ \E err \in BOOLEAN, pub \in {"none", "ok", "err"}, head \in headsBuilt :
       LET r == onProposerAction(err, pub, ProposerStopped, head)
           drained == [proposerTimer EXCEPT !.tick = 0]
       IN /\ loop' = IF r.exit THEN "exited" ELSE "top"
          /\ ProposerStopped' = r.stopped
          /\ unsafeL2Head' = r.head
          /\ proposerTimer' \in IF r.plan THEN planProposerAction(drained) ELSE {drained}
          /\ proposerCh' = IF r.plan THEN "C" ELSE proposerCh
          /\ calls' = calls \o <<Call("RunNextProposerAction", RunResult(err, head))>>
                            \o r.made
                            \o (IF r.plan THEN <<Call("PlanNextProposerAction", "action")>>
                                ELSE <<>>)
  /\ UNCHANGED <<ProposerEnabled, l1Head, stepReqCh, delayedStepReq,
                 stepAttempts, derivationIdle, engineReady, needsReset, resetCalls,
                 pipelineResets, resetCauses, callVars>>
  /\ UNCHANGED extVars
  /\ UNCHANGED auxVars

\* ------------------------------------------------------------ specification
\* The proposer: its timer and actions, started and stopped by the callers,
\* over a derivation that makes progress or goes idle and moves the unsafe head.
NextProposer ==
  \/ Start(TRUE, FALSE)
  \/ LoopTop
  \/ TimerExpire
  \/ StepReq({"ok", "eof"}, TRUE, FALSE)
  \/ L1HeadSig
  \/ ProposerAction
  \/ StartProposerBegin
  \/ StartProposerCtxDone
  \/ StartProposerReturn
  \/ StartProposerReq
  \/ StopProposerBegin
  \/ StopProposerCtxDone
  \/ StopProposerReturn
  \/ StopProposerReq

SpecProposer == Init /\ [][NextProposer]_vars

\* The derivation: every Step result, the backoff, and pipeline resets.
NextDerive ==
  \/ Start(FALSE, FALSE)
  \/ LoopTop
  \/ TimerExpire
  \/ StepReq(AllResults, FALSE, FALSE)
  \/ DelayedStepReq
  \/ L1HeadSig
  \/ ResetCallBegin
  \/ ResetCallCtxDone
  \/ ResetCallReturn
  \/ ForceReset(FALSE, FALSE)
  \/ ProposerAction

SpecDerive == Init /\ [][NextDerive]_vars

\* ================================================================== claims
\* A handler ran in this step: the select took an event.
Handled == loop = "select" /\ loop' # "select"

\* What the specification says StartProposer returns.
StartExpected(enabled, stopped, head, hash) ==
  IF ~enabled THEN "disabled"
  ELSE IF ~stopped THEN "already running"
  ELSE IF head # hash THEN "hash mismatch"
  ELSE "nil"

\* The StartProposer call returns in this step, after the loop took its
\* request or without entering the loop because the proposer is disabled.
StartReturns ==
  /\ startCall.pc # "done"
  /\ startCall'.pc = "done"
  /\ (startCall.pc = "wait" \/ ~ProposerEnabled)

\* C1, as stated: StartProposer(h) returns nil iff the proposer is enabled,
\* was stopped when the loop handled the request and h was the unsafe head's
\* hash then; in every other case it returns the matching error.
C1_Original ==
  [][StartReturns =>
       startCall'.ret = StartExpected(ProposerEnabled, startCall.sawStopped,
                                      startCall.sawHead, startCall.hash)]_vars

\* C1, amended: the loop's answer is the one stated, and a StartProposer call
\* that does not end on its context's expiry returns it: nil iff enabled,
\* stopped at handling and h the unsafe head's hash at handling, else the
\* matching error.  A call whose context expires returns the context error.
C1_StartProposerResult ==
  /\ [](startCall.pc = "wait" =>
          (IF startCall.reply = "closed" THEN "nil" ELSE startCall.reply)
            = StartExpected(ProposerEnabled, startCall.sawStopped,
                            startCall.sawHead, startCall.hash))
  /\ [][StartReturns /\ startCall'.ret # "ctx" =>
          startCall'.ret = StartExpected(ProposerEnabled, startCall.sawStopped,
                                         startCall.sawHead, startCall.hash)]_vars

\* A StartProposer call returned nil.
C1_Witness == startCall.pc = "done" /\ startCall.ret = "nil"

\* C2: a StartProposer request the loop rejects (already running, hash
\* mismatch) leaves ProposerStopped unchanged and neither re-plans nor
\* re-arms the proposer timer.
C2_RejectedStartIsNoOp ==
  [][(startCall.pc = "send" /\ startCall'.pc = "wait" /\ startCall'.reply # "closed") =>
       /\ ProposerStopped' = ProposerStopped
       /\ proposerTimer' = proposerTimer
       /\ proposerCh' = proposerCh
       /\ calls' = calls]_vars

\* A request was just rejected for its hash while the proposer timer ran.
C2_Witness ==
  /\ startCall.pc = "wait"
  /\ startCall.reply = "hash mismatch"
  /\ loop = "top"
  /\ proposerTimer.armed

\* What the specification says the loop answers to StopProposer.
StopExpected(stopped, head) ==
  IF stopped THEN [hash |-> 0, err |-> "not running"]
  ELSE [hash |-> head, err |-> "nil"]

\* C3, as stated: with the proposer enabled, a StopProposer caller gets
\* 'proposer not running' if it was stopped, else the unsafe head's hash of
\* that loop iteration and no error.
C3_Original ==
  [][(stopCall.pc = "wait" /\ stopCall'.pc = "done") =>
       stopCall'.ret = StopExpected(stopCall.sawStopped, stopCall.sawHead)]_vars

\* C3, amended: the loop handles StopProposer as stated (already stopped:
\* 'proposer not running' and nothing changes; else ProposerStopped becomes
\* true and the answer is the unsafe head's hash of that iteration, no
\* error), and the caller gets that answer unless its context expires first.
C3_StopProposerResult ==
  [][/\ (stopCall.pc = "send" /\ stopCall'.pc = "wait") =>
          /\ stopCall'.reply = StopExpected(ProposerStopped, unsafeL2Head)
          /\ IF ProposerStopped
               THEN UNCHANGED <<ProposerStopped, l1Head, stepReqCh, delayedStepReq,
                                stepAttempts, derivationIdle, proposerCh, proposerTimer,
                                calls, pipeVars, propVars>>
               ELSE ProposerStopped'
     /\ (stopCall.pc = "wait" /\ stopCall'.pc = "done" /\ stopCall'.ret.err # "ctx") =>
          stopCall'.ret = StopExpected(stopCall.sawStopped, stopCall.sawHead)]_vars

\* A StopProposer call returned a hash and no error, the proposer stopped.
C3_Witness ==
  /\ stopCall.pc = "done"
  /\ stopCall.ret.err = "nil"
  /\ stopCall.ret.hash \in L2Heads
  /\ ProposerStopped

\* C4: with ProposerEnabled false, StartProposer and StopProposer return the
\* 'not enabled' error without a message to the loop: the call is over in
\* one step that leaves the loop, the pipeline and the proposer alone.
C4_DisabledNeverEntersLoop ==
  [][~ProposerEnabled =>
       /\ startCall' # startCall =>
            /\ startCall' = StartFrame("done", 0, "disabled")
            /\ UNCHANGED <<loopVars, timerVars, pipeVars, propVars>>
       /\ stopCall' # stopCall =>
            /\ stopCall' = StopFrame("done", [hash |-> 0, err |-> "disabled"])
            /\ UNCHANGED <<loopVars, timerVars, pipeVars, propVars>>]_vars

\* Both calls returned 'not enabled' while the loop waits in its select.
C4_Witness ==
  /\ ~ProposerEnabled
  /\ startCall.pc = "done"
  /\ stopCall.pc = "done"
  /\ loop = "select"

\* The proposer is eligible, as the specification defines it.
C5_Eligible == ProposerEnabled /\ ~ProposerStopped /\ l1Head # 0 /\ engineReady

\* C5: RunNextProposerAction runs only in an iteration at whose start the
\* proposer was enabled, not stopped, had seen an L1 head and had a ready
\* engine; in every other iteration the proposer channel is nil.
C5_ProposerOnlyWhenEligible ==
  /\ [](loop = "select" /\ ~C5_Eligible => proposerCh = "nil")
  /\ [][Handled /\ Called(calls', "RunNextProposerAction") => C5_Eligible]_vars

\* A proposer action ran after StartProposer had succeeded.
C5_Witness ==
  /\ loop = "top"
  /\ Called(calls, "RunNextProposerAction")
  /\ startCall.pc = "done"
  /\ startCall.ret = "nil"

\* The loop took a ResetDerivationPipeline request in this step.
ForceResetTaken == resetCall.pc = "send" /\ resetCall'.pc = "wait"

\* Step returned res in the event the loop has just handled.
StepReturned(res) == loop \in {"top", "exited"} /\ InCalls(calls, Call("Step", res))

\* C6: after a Step returns ResetError the loop calls Reset() before any
\* further Step: in the iteration's calls Reset follows that Step at once,
\* so between events the pipeline never awaits a reset; and a force reset is
\* done within the event that received the request, with no Step in it.
C6_ResetBeforeNextStep ==
  /\ [](/\ ~needsReset
        /\ \A i \in 1..Len(calls) :
             calls[i] = Call("Step", "reset") =>
               i < Len(calls) /\ calls[i + 1][1] = "Reset")
  /\ [][ForceResetTaken =>
          /\ resetCalls' = resetCalls + 1
          /\ ~Called(calls', "Step")
          /\ calls'[Len(calls')] = Call("RecordPipelineReset", "force")]_vars

\* A Step has just returned ResetError.
C6_Witness == StepReturned("reset")

\* C7, as stated: after a reset performed by the loop (Step ResetError or
\* ResetDerivationPipeline) stepAttempts is 0.
C7_Original ==
  (loop = "top" /\ (InCalls(calls, Call("Reset", "step")) \/ InCalls(calls, Call("Reset", "force"))))
    => stepAttempts = 0

\* C7, amended: a reset does not clear stepAttempts.  A Step that returns
\* ResetError leaves stepAttempts one above its value before that Step, and
\* a reset by ResetDerivationPipeline leaves stepAttempts unchanged.
C7_ResetKeepsStepAttempts ==
  [][/\ (Handled /\ InCalls(calls', Call("Step", "reset"))) =>
          (stepAttempts' = stepAttempts + 1 /\ Called(calls', "Reset"))
     /\ ForceResetTaken => stepAttempts' = stepAttempts]_vars

\* A second failed attempt in a row ended in a reset: stepAttempts is 2.
C7_Witness == StepReturned("reset") /\ stepAttempts = 2

C9_OneResetPerCause ==
  /\ [](/\ pipelineResets = resetCauses
        /\ resetCalls = resetCauses + (IF loop = "idle" THEN 0 ELSE 1))
  /\ [][/\ ForceResetTaken =>
             /\ CountCalls(calls', "Reset") = 1
             /\ CountCalls(calls', "RecordPipelineReset") = 1
             /\ UNCHANGED <<ProposerStopped, l1Head, stepAttempts, stepReqCh, delayedStepReq>>
        /\ (Handled /\ InCalls(calls', Call("Step", "reset"))) =>
             /\ CountCalls(calls', "Reset") = 1
             /\ CountCalls(calls', "RecordPipelineReset") = 1]_vars

\* The second reset request was just served: three Reset() calls with Start's.
C9_Witness ==
  /\ loop = "top"
  /\ InCalls(calls, Call("Reset", "force"))
  /\ resetCauses = 2
  /\ resetCalls = 3
  /\ pipelineResets = 2

\* C10: when Step returns CriticalError the loop returns, and a loop that
\* has returned calls nothing on the pipeline or the proposer and receives
\* from no channel.
C10_CriticalErrorEndsLoop ==
  /\ [](StepReturned("critical") => loop = "exited")
  /\ [][loop = "exited" =>
          /\ UNCHANGED <<loopVars, pipeVars, propVars>>
          /\ ~(startCall.pc = "send" /\ startCall'.pc = "wait")
          /\ ~(stopCall.pc = "send" /\ stopCall'.pc = "wait")
          /\ ~ForceResetTaken]_vars

\* The loop returned on a critical Step while a reset request waits unserved.
C10_Witness ==
  /\ loop = "exited"
  /\ InCalls(calls, Call("Step", "critical"))
  /\ resetCall.pc = "send"
  /\ stepReqCh = 0

\* The k-th call of this iteration is a RunNextProposerAction that returned
\* an error (err = TRUE) or a payload or nothing (err = FALSE).
RunReturned(cs, k, err) ==
  /\ k \in 1..Len(cs)
  /\ cs[k][1] = "RunNextProposerAction"
  /\ cs[k][2].err = err

\* C11: when RunNextProposerAction returns an error the handler ends the
\* loop at once: that call is the last one of the iteration (no Reset, no
\* PublishL2Payload, no PlanNextProposerAction), the pipeline is not reset,
\* and the proposer timer is left as the tick's receipt left it, not re-armed.
C11_ProposerErrorEndsLoop ==
  [][(Handled /\ \E k \in 1..Len(calls') : RunReturned(calls', k, TRUE))
     => /\ loop' = "exited"
        /\ Len(calls') = Len(calls) + 1
        /\ RunReturned(calls', Len(calls'), TRUE)
        /\ resetCalls' = resetCalls
        /\ pipelineResets' = pipelineResets
        /\ proposerTimer' = [proposerTimer EXCEPT !.tick = 0]
        /\ proposerCh' = proposerCh]_vars

C11_Witness ==
  /\ loop = "exited"
  /\ RunReturned(calls, Len(calls), TRUE)
  /\ ~proposerTimer.armed

PublishFailed == Handled /\ InCalls(calls', Call("PublishL2Payload", "err"))

PublishSucceeded == Handled /\ InCalls(calls', Call("PublishL2Payload", "ok"))

\* The handler ended by planning the next proposer action.
PlannedNext ==
  /\ loop' = "top"
  /\ calls'[Len(calls')] = Call("PlanNextProposerAction", "action")
  /\ proposerCh' = "C"
  /\ proposerTimer' \in planProposerAction([proposerTimer EXCEPT !.tick = 0])

\* C12: a failed PublishL2Payload leaves ProposerStopped as it was, leaves
\* the unsafe head where RunNextProposerAction put it and does not end the
\* loop; it records one publishing error, and the next proposer action is
\* then planned as it is after a successful publish (which records none).
C12_PublishFailureOnlyMetered ==
  [][/\ PublishFailed =>
          /\ ProposerStopped' = ProposerStopped
          /\ \E k \in 1..Len(calls') :
               RunReturned(calls', k, FALSE) /\ unsafeL2Head' = calls'[k][2].head
          /\ CountCalls(calls', "RecordPublishingError") = 1
          /\ calls'[Len(calls') - 1] = Call("RecordPublishingError", "-")
          /\ PlannedNext
     /\ PublishSucceeded =>
          /\ ProposerStopped' = ProposerStopped
          /\ ~Called(calls', "RecordPublishingError")
          /\ PlannedNext]_vars

C12_Witness ==
  /\ loop = "top"
  /\ InCalls(calls, Call("PublishL2Payload", "err"))
  /\ InCalls(calls, Call("RecordPublishingError", "-"))
  /\ ~ProposerStopped
  /\ proposerCh = "C"
  /\ proposerTimer.armed

\* A derivation whose Step only succeeds or lacks data, with L1 heads,
\* manual resets and proposer actions around it.
NextHealthy ==
  \/ Start(FALSE, FALSE)
  \/ LoopTop
  \/ TimerExpire
  \/ StepReq({"ok", "ned"}, FALSE, FALSE)
  \/ L1HeadSig
  \/ ResetCallBegin
  \/ ResetCallCtxDone
  \/ ResetCallReturn
  \/ ForceReset(FALSE, FALSE)
  \/ ProposerAction

SpecHealthy == Init /\ [][NextHealthy]_vars

\* C13: a Step that returned NotEnoughData leaves stepAttempts at 0 and the
\* next step requested at once (stepReqCh full, no backoff scheduled by it);
\* and while Step returns only success and NotEnoughData no delayed step is
\* ever scheduled and the counter never stays above 0.
C13_NotEnoughDataNoBackoff ==
  /\ [][Handled /\ InCalls(calls', Call("Step", "ned"))
          => /\ stepAttempts' = 0
             /\ stepReqCh' = 1
             /\ delayedStepReq' = delayedStepReq]_vars
  /\ [](delayedStepReq = 0 /\ stepAttempts = 0)

C13_Witness ==
  /\ StepReturned("ned")
  /\ stepReqCh = 1
  /\ l1Head # 0
  /\ resetCalls > 1

\* The derivation and its backoff under every interleaving of L1 signals and
\* unsafe payloads with the delayed-step timer.
NextBackoff ==
  \/ Start(FALSE, FALSE)
  \/ LoopTop
  \/ StepReq(AllResults, FALSE, FALSE)
  \/ DelayedStepReq
  \/ L1HeadSig
  \/ L1SafeSig
  \/ L1FinalizedSig
  \/ UnsafeL2Payload

SpecBackoff == Init /\ [][NextBackoff]_vars

\* case <-delayedStepReq is taken in this step.
DelayFired == Handled /\ delayedStepReq # 0 /\ delayedStepReq' = 0

\* reqStep schedules a delayed step in this step.
DelayScheduled == delayedStepReq = 0 /\ delayedStepReq' # 0

\* C14 as stated: within a run of failed steps, each backoff delay that
\* fires is at least the one that fired before it in the run.
C14_Original ==
  [][DelayFired /\ stepAttempts > 0 /\ lastFired > 0
     => Duration(delayedStepReq) >= Duration(lastFired)]_vars

\* C14: within a run of failed steps, each backoff delay that reqStep
\* schedules is computed from the current stepAttempts, is at least the
\* delay scheduled before it in the run, and is at most the cap; whatever
\* L1 signals and unsafe payloads arrive in between.
C14_ScheduledDelaysNonDecreasing ==
  [][DelayScheduled
     => /\ stepAttempts' > 0
        /\ delayedStepReq' = stepAttempts'
        /\ lastSched' = delayedStepReq'
        /\ lastSched > 0 => Duration(delayedStepReq') >= Duration(lastSched)
        /\ Duration(delayedStepReq') <= MaxBackoff]_vars

C14_Witness ==
  /\ lastSched = 2
  /\ lastFired = 1
  /\ delayedStepReq = 2
  /\ Called(calls, "Step")

\* C16: a Step that returned EOF leaves stepAttempts at 0 and the idle
\* metric set, and requests no step (stepReqCh empty, no delay scheduled);
\* from then on the step-request channel is filled only by an L1 head, an
\* L1 finalized or an unsafe payload event, or by a delayed step that was
\* already pending.
C16_EOFGoesIdle ==
  /\ [][Handled /\ InCalls(calls', Call("Step", "eof"))
          => /\ stepAttempts' = 0
             /\ derivationIdle'
             /\ stepReqCh' = 0
             /\ delayedStepReq' = delayedStepReq
             /\ loop' = "top"]_vars
  /\ [][loop # "idle" /\ stepReqCh = 0 /\ stepReqCh' = 1
          => \/ DelayFired
             \/ /\ Handled
                /\ \/ Called(calls', "HandleNewL1HeadBlock")
                   \/ Called(calls', "HandleNewL1FinalizedBlock")
                   \/ Called(calls', "AddUnsafePayload")]_vars

C16_Witness ==
  /\ StepReturned("eof")
  /\ derivationIdle
  /\ stepReqCh = 0
  /\ stepAttempts = 0
  /\ delayedStepReq # 0

\* A scripted derivation: Step fails with a temporary error or succeeds, and
\* nothing but Step and its backoff timer requests a step (L1 safe signals
\* and StopProposer calls request none).
NextScripted ==
  \/ Start(FALSE, FALSE)
  \/ LoopTop
  \/ StepReq({"temp", "ok"}, FALSE, FALSE)
  \/ DelayedStepReq
  \/ L1SafeSig
  \/ StopProposerBegin
  \/ StopProposerCtxDone
  \/ StopProposerReturn
  \/ StopProposerReq

SpecScripted == Init /\ [][NextScripted]_vars

NextStatus ==
  \/ Start(TRUE, TRUE)
  \/ LoopTop
  \/ StepReq({"ok", "eof"}, TRUE, TRUE)
  \/ L1HeadSig
  \/ L1SafeSig
  \/ L1FinalizedMoves
  \/ UnsafeL2Payload
  \/ StateCallBegin
  \/ StateCallCtxDone
  \/ StateReq
  \/ StateCallRead
  \/ StateCallRef
  \/ StateCallReturn

SpecStatus == Init /\ [][NextStatus]_vars

\* The call is between the loop's receipt of its request and its return.
StateCallInside == stateCall.pc \in {"read", "ref", "recv"}

\* C17: from the moment the loop accepts a state request until the caller
\* has received on its wait channel, the loop is blocked in the stateReq
\* case and handles no event, and every field read so far still equals
\* what its getter returns: the status is that of one state of the driver.
C17_StatusNotTorn ==
  StateCallInside =>
    /\ loop = "stateResp"
    /\ \A i \in 1..Len(stateCall.status) : stateCall.status[i] = syncStatus(i)

C17_Witness ==
  /\ stateCall.pc = "recv"
  /\ stateCall.kind = "BlockRefWithStatus"
  /\ Len(stateCall.status) = StatusFields
  /\ stateCall.status[1] = <<1, 1, 1>>
  /\ stateCall.status[2] = 2
  /\ loop = "stateResp"

\* C18: every status that SyncStatus or BlockRefWithStatus is about to
\* return has FinalizedL2 <= SafeL2 <= UnsafeL2, whatever L1 head, L1 safe,
\* L1 finalized and unsafe payload signals and steps came before.
C18_SnapshotOrdered ==
  stateCall.pc \in {"ref", "recv"} =>
    /\ stateCall.status[4] <= stateCall.status[3]
    /\ stateCall.status[3] <= stateCall.status[2]

C18_Witness ==
  /\ stateCall.pc = "recv"
  /\ stateCall.kind = "SyncStatus"
  /\ stateCall.status[2] = 2
  /\ stateCall.status[3] = 1
  /\ stateCall.status[4] = 0
  /\ l1Finalized # 0

\* The API calls, in progress or returned.
ApiFrames == <<sigCall, stateCall, resetCall, startCall, stopCall>>

InFlight == Cardinality({i \in 1..Len(ApiFrames) : ApiFrames[i].pc # "idle"})

\* A caller drops the result of a call that has returned.
ApiCallEnd ==
  /\ \E i \in 1..Len(ApiFrames) :
       /\ ApiFrames[i].pc = "done"
       /\ sigCall' = IF i = 1 THEN SigFrame("idle", "none", "none") ELSE sigCall
       /\ stateCall' = IF i = 2 THEN StateFrame("idle", "none", <<>>, FALSE) ELSE stateCall
       /\ resetCall' = IF i = 3 THEN [pc |-> "idle", ret |-> "none"] ELSE resetCall
       /\ startCall' = IF i = 4 THEN StartFrame("idle", 0, "none") ELSE startCall
       /\ stopCall' = IF i = 5 THEN StopFrame("idle", "none") ELSE stopCall
  /\ UNCHANGED <<loopVars, ProposerEnabled, timerVars, pipeVars, propVars>>
  /\ UNCHANGED extVars
  /\ UNCHANGED <<l1SigVars, chainVars, histVars>>

\* A caller enters one of the API's calls.
ApiCallBegin ==
  /\ InFlight < MaxInFlight
  /\ \/ SigCallBegin
     \/ StateCallBegin
     \/ ResetCallBegin
     \/ StartProposerBegin
     \/ StopProposerBegin

\* The public API: every call with its context, made by callers limited in
\* number, against a loop whose derivation runs until it is idle.
NextApi ==
  \/ Start(FALSE, FALSE)
  \/ LoopTop
  \/ StepReq({"eof"}, FALSE, FALSE)
  \/ ApiCallBegin
  \/ ApiCallEnd
  \/ SigCallCtxDone
  \/ SignalFromCall
  \/ StateCallCtxDone
  \/ StateReq
  \/ StateCallRead
  \/ StateCallRef
  \/ StateCallReturn
  \/ ResetCallCtxDone
  \/ ResetCallReturn
  \/ ForceReset(FALSE, FALSE)
  \/ StartProposerCtxDone
  \/ StartProposerReturn
  \/ StartProposerReq
  \/ StopProposerCtxDone
  \/ StopProposerReturn
  \/ StopProposerReq

SpecApi == Init /\ [][NextApi]_vars

\* A call returns a context error in this step.
SigReturnsCtx ==
  sigCall.pc # "done" /\ sigCall'.pc = "done" /\ sigCall'.ret = "ctx"

StateReturnsCtx ==
  stateCall.pc # "done" /\ stateCall'.pc = "done" /\ stateCall'.status = "ctx"

ResetReturnsCtx ==
  resetCall.pc # "done" /\ resetCall'.pc = "done" /\ resetCall'.ret = "ctx"

StartReturnsCtx ==
  startCall.pc # "done" /\ startCall'.pc = "done" /\ startCall'.ret = "ctx"

StopReturnsCtx ==
  stopCall.pc # "done" /\ stopCall'.pc = "done" /\ stopCall'.ret.err = "ctx"

\* The step changes nothing the loop owns.
LoopUntouched ==
  UNCHANGED <<loopVars, timerVars, pipeVars, propVars, l1SigVars, chainVars, histVars>>

C20_NilOnlyAfterReset ==
  /\ [][resetCall.pc # "done" /\ resetCall'.pc = "done" /\ resetCall'.ret = "nil"
          => resetCall.pc = "wait"]_vars
  /\ [][resetCall.pc # "wait" /\ resetCall'.pc = "wait"
          => /\ resetCall.pc = "send"
             /\ Handled
             /\ resetCalls' = resetCalls + 1
             /\ InCalls(calls', Call("Reset", "force"))
             /\ ~needsReset']_vars

C20_Witness ==
  /\ resetCall.pc = "done"
  /\ resetCall.ret = "nil"
  /\ resetCalls > 1
  /\ stepAttempts > 0

\* --------------------------------------------------- signals from callers
\* The values that callers name in their signals.
MaxRef == 2

L1Kinds == {"head", "safe", "finalized"}

\* OnL1Head, OnL1Safe or OnL1Finalized with a named reference.
OnL1Call == SigCallOf(L1Kinds, 1..MaxRef)

\* Callers signal named L1 references to a loop that answers status
\* queries.
NextSignals ==
  \/ Start(FALSE, FALSE)
  \/ LoopTop
  \/ StepReq({"eof"}, FALSE, FALSE)
  \/ OnL1Call
  \/ SigCallCtxDone
  \/ SignalFromCall
  \/ StateCallBegin
  \/ StateCallCtxDone
  \/ StateReq
  \/ StateCallRead
  \/ StateCallRef
  \/ StateCallReturn

SpecSignals == Init /\ [][NextSignals]_vars

\* The loop receives the signal of kind kind that a caller is sending.
Delivered(kind) ==
  /\ sigCall.pc = "send"
  /\ sigCall.kind = kind
  /\ sigCall'.pc = "done"
  /\ sigCall'.ret = "nil"

\* C21: every delivered L1 signal stores its value in the reference of its
\* own kind and leaves the other two alone, nothing else changes the three
\* references, so each is the value last delivered for its kind; and the
\* status a SyncStatus or BlockRefWithStatus call returns carries exactly
\* the three references as HeadL1, SafeL1 and FinalizedL1.
C21_L1SignalsInOrder ==
  [][/\ Delivered("head")
          => l1Head' = sigCall.arg /\ UNCHANGED <<l1Safe, l1Finalized>>
     /\ Delivered("safe")
          => l1Safe' = sigCall.arg /\ UNCHANGED <<l1Head, l1Finalized>>
     /\ Delivered("finalized")
          => l1Finalized' = sigCall.arg /\ UNCHANGED <<l1Head, l1Safe>>
     /\ ~(\E kind \in L1Kinds : Delivered(kind))
          => UNCHANGED <<l1Head, l1Safe, l1Finalized>>
     /\ (stateCall.pc = "recv" /\ stateCall'.pc = "done")
          => stateCall.status[1] = <<l1Head, l1Safe, l1Finalized>>]_vars

C21_Witness ==
  /\ stateCall.pc = "recv"
  /\ stateCall.kind = "SyncStatus"
  /\ stateCall.status[1] = <<2, 1, 2>>
  /\ sigCall.pc = "done"
  /\ sigCall.kind = "safe"
  /\ sigCall.ret = "nil"

\* OnUnsafeL2Payload with a named payload.
OnPayloadCall == SigCallOf({"payload"}, 1..MaxRef)

\* Callers hand named payloads to a loop that derives with failures.
NextPayload ==
  \/ Start(FALSE, FALSE)
  \/ LoopTop
  \/ StepReq({"ok", "temp", "eof"}, FALSE, FALSE)
  \/ DelayedStepReq
  \/ OnPayloadCall
  \/ SigCallCtxDone
  \/ SignalFromCall

SpecPayload == Init /\ [][NextPayload]_vars

\* C22: the step in which OnUnsafeL2Payload returns nil is the loop's
\* handling of that payload: in that one iteration the loop passes the
\* payload to AddUnsafePayload and records it, runs no Step, and leaves a
\* step requested (an immediate request, or a delayed one while failed
\* attempts are counted), so every later Step finds the payload queued.
C22_PayloadQueuedBeforeNextStep ==
  [][Delivered("payload")
       => /\ Handled
          /\ calls' = <<Call("AddUnsafePayload", sigCall.arg),
                        Call("RecordReceivedUnsafePayload", sigCall.arg)>>
          /\ IF stepAttempts = 0 THEN stepReqCh' = 1 ELSE delayedStepReq' # 0]_vars

C22_Witness ==
  /\ sigCall.pc = "done"
  /\ sigCall.kind = "payload"
  /\ sigCall.ret = "nil"
  /\ loop = "top"
  /\ InCalls(calls, Call("AddUnsafePayload", 2))
  /\ stepAttempts = 2
  /\ stepReqCh = 0
  /\ delayedStepReq = 2

\* ------------------------------------------------- backup-sync gap filler
\* The width in bits of the unsigned integers of the gap check (uint64 in
\* the code, scaled down), and the range of their values.
UintBits == 3

Uint == 2^UintBits

\* config.Genesis.L2Time and config.BlockTime of the rollup configuration.
GenesisL2Time == 2

BlockTime == 2

\* FetchUnsafeBlock is a bounded channel.
FetchCap == 2

\* wallClockGenesisDiff / s.config.BlockTime, in unsigned arithmetic.
expectedL2Block(wallClock) == ((wallClock - GenesisL2Time) % Uint) \div BlockTime

\* The pipeline's GetUnsafeQueueGap(expected): an inclusive range
\* <<start, end>> of block numbers past the unsafe head and up to expected,
\* empty iff end < start.
GetUnsafeQueueGap(expected) ==
  LET top == IF expected > unsafeL2Head THEN expected ELSE unsafeL2Head
  IN  {g \in ((unsafeL2Head + 1)..(top + 1)) \X (unsafeL2Head..top) : g[2] >= g[1] - 1}

\* The for loop of the gap check: one non-blocking send per block number
\* from blockNumber to end, giving up at the first send that finds the
\* channel full. The numbers sent, in order.
RECURSIVE fetchLoop(_, _, _)
fetchLoop(blockNumber, end, free) ==
  IF blockNumber <= end /\ free > 0
    THEN <<blockNumber>> \o fetchLoop(blockNumber + 1, end, free - 1)
    ELSE <<>>

\* checkForGapInUnsafeQueue whose sends wait for room on the channel.
checkForGapInUnsafeQueue_BlockingSends(start, end, free) ==
  LET size == (end - start) % Uint
  IN  IF size > 0 THEN fetchLoop(start, end, size + 1) ELSE <<>>

\* checkForGapInUnsafeQueue given the gap and the free capacity of the
\* channel: size := end - start in unsigned arithmetic, and the loop runs
\* if size > 0. The numbers sent, in order.
checkForGapInUnsafeQueue(start, end, free) ==
  LET size == (end - start) % Uint
  IN  IF size > 0 THEN fetchLoop(start, end, free) ELSE <<>>

\* The sends of a tick as calls.
FetchCalls(sent) == [i \in 1..Len(sent) |-> Call("FetchUnsafeBlock", sent[i])]

\* case <-altSyncTicker.C, at any wall-clock time.
AltSyncTick ==
  /\ loop = "select"
  /\ \E wallClock \in 0..(Uint - 1) :
       \E gap \in GetUnsafeQueueGap(expectedL2Block(wallClock)) :
         LET sent == checkForGapInUnsafeQueue(gap[1], gap[2], FetchCap - Len(fetchCh))
             query == Call("GetUnsafeQueueGap",
                           [wallClock |-> wallClock,
                            expected |-> expectedL2Block(wallClock),
                            start |-> gap[1], end |-> gap[2]])
         IN  IF L2SyncCl
               THEN /\ fetchCh' = fetchCh \o sent
                    /\ calls' = calls \o <<query>> \o FetchCalls(sent)
               ELSE UNCHANGED <<fetchCh, calls>>
  /\ loop' = "top"
  /\ UNCHANGED <<ProposerEnabled, ProposerStopped, l1Head, stepReqCh, delayedStepReq,
                 stepAttempts, derivationIdle, proposerCh, timerVars, pipeVars,
                 propVars, callVars, auxVars, L2SyncCl, closeCall, stepped, confVars>>

\* The backup sync client takes the oldest request off its channel.
FetchTaken ==
  /\ fetchCh # <<>>
  /\ fetchCh' = Tail(fetchCh)
  /\ UNCHANGED <<loopVars, ProposerEnabled, timerVars, pipeVars, propVars, callVars,
                 auxVars, L2SyncCl, closeCall, stepped, confVars>>

\* The driver as constructed with or without a backup sync client.
InitSync == \E client \in BOOLEAN : InitWith(client)

\* The gap filler in a loop that derives and takes unsafe payloads.
NextSync ==
  \/ Start(TRUE, FALSE)
  \/ LoopTop
  \/ StepReq({"ok", "eof"}, TRUE, FALSE)
  \/ UnsafeL2Payload
  \/ AltSyncTick
  \/ FetchTaken

SpecSync == InitSync /\ [][NextSync]_vars

\* The loop has handled a backup-sync tick with a client configured.
Ticked == Handled /\ Called(calls', "GetUnsafeQueueGap")

\* The gap that the tick's query returned, the numbers it then sent.
TickGap(cs) == cs[CHOOSE i \in 1..Len(cs) : cs[i][1] = "GetUnsafeQueueGap"][2]

TickSent(cs) ==
  LET first == CHOOSE i \in 1..Len(cs) : cs[i][1] = "GetUnsafeQueueGap"
  IN  [i \in 1..(Len(cs) - first) |-> cs[first + i][2]]

\* The inclusive range start..end in ascending order.
Range(start, end) == [i \in 1..(IF end >= start THEN end - start + 1 ELSE 0) |-> start + i - 1]

\* The numbers the channel has room for.
FetchFree == FetchCap - Len(fetchCh)

\* C23: a tick with a client configured and room on the channel for the
\* whole gap enqueues exactly start..end, ascending, once each, behind what
\* the channel held; a one-block gap enqueues its block and an empty range
\* enqueues nothing.
C23_GapEnqueuedExactly ==
  [][Ticked /\ FetchFree >= Len(Range(TickGap(calls').start, TickGap(calls').end))
       => /\ TickSent(calls') = Range(TickGap(calls').start, TickGap(calls').end)
          /\ fetchCh' = fetchCh \o Range(TickGap(calls').start, TickGap(calls').end)]_vars

\* s is a prefix of t.
IsPrefix(s, t) == Len(s) <= Len(t) /\ \A i \in 1..Len(s) : s[i] = t[i]

\* C24: the channel never holds more than its capacity, and a tick with a
\* client configured ends within its own loop iteration having enqueued a
\* prefix of start..end: what the channel had room for at most, the rest
\* dropped.
C24_GapFillerNeverBlocks ==
  [][/\ Len(fetchCh') <= FetchCap
     /\ Ticked
          => /\ loop' = "top"
             /\ IsPrefix(TickSent(calls'), Range(TickGap(calls').start, TickGap(calls').end))
             /\ Len(TickSent(calls')) <= FetchFree
             /\ fetchCh' = fetchCh \o TickSent(calls')]_vars

\* A tick found a gap of two blocks and room for one: the first is
\* enqueued, the other is dropped.
C24_Witness ==
  /\ loop = "top"
  /\ Called(calls, "GetUnsafeQueueGap")
  /\ TickGap(calls).start = 2
  /\ TickGap(calls).end = 3
  /\ TickSent(calls) = <<2>>
  /\ Len(fetchCh) = FetchCap

\* ------------------------------------------------------------------ Close
\* Close: the caller blocks in the send on the unbuffered done channel.
CloseBegin ==
  /\ closeCall.pc \in {"idle", "done"}
  /\ closeCall' = [pc |-> "send"]
  /\ UNCHANGED <<loopVars, ProposerEnabled, timerVars, pipeVars, propVars, callVars,
                 auxVars, syncVars, stepped, confVars>>

\* The done case for a loop that goes on to its next iteration.
onDone_KeepsRunning == [exit |-> FALSE]

\* What the done case does: return, which ends the loop goroutine and runs
\* its deferred wg.Done().
onDone == [exit |-> TRUE]

\* case <-s.done (the caller's send is the rendezvous)
Done ==
  /\ loop = "select"
  /\ closeCall.pc = "send"
  /\ closeCall' = [pc |-> "wait"]
  /\ loop' = IF onDone.exit THEN "exited" ELSE "top"
  /\ UNCHANGED <<ProposerEnabled, ProposerStopped, l1Head, stepReqCh, delayedStepReq,
                 stepAttempts, derivationIdle, proposerCh, calls, timerVars, pipeVars,
                 propVars, callVars, auxVars, syncVars, stepped, confVars>>

\* s.wg.Wait() returns once the loop goroutine has finished; return nil.
CloseReturn ==
  /\ closeCall.pc = "wait"
  /\ loop = "exited"
  /\ closeCall' = [pc |-> "done"]
  /\ UNCHANGED <<loopVars, ProposerEnabled, timerVars, pipeVars, propVars, callVars,
                 auxVars, syncVars, stepped, confVars>>

\* Close against a loop that derives, with failures that it retries, and
\* takes L1 heads.
NextClose ==
  \/ Start(FALSE, FALSE)
  \/ LoopTop
  \/ StepReq({"ok", "temp", "eof"}, FALSE, FALSE)
  \/ DelayedStepReq
  \/ L1HeadSig
  \/ CloseBegin
  \/ Done
  \/ CloseReturn

\* The loop goes on from the top of an iteration to its select; the select
\* chooses at random among the cases that are ready, so a done message
\* that stays ready is taken; a caller whose wait is over returns.
SpecClose ==
  /\ Init
  /\ [][NextClose]_vars
  /\ WF_vars(LoopTop)
  /\ SF_vars(Done)
  /\ WF_vars(CloseReturn)

Running == loop \in {"top", "select"}

NewCalls ==
  IF calls' = calls /\ loop' = loop
    THEN <<>>
    ELSE IF loop = "select"
           THEN SubSeq(calls', Len(calls) + 1, Len(calls'))
           ELSE calls'

\* A step that mutates the derivation pipeline.
PipelineMutated ==
  \/ \E op \in {"Reset", "Step", "AddUnsafePayload", "Finalize"} : Called(NewCalls, op)
  \/ resetCalls' # resetCalls
  \/ <<engineReady, unsafeL2Head, needsReset, safeL2Head, finalizedL2Head>>'
       # <<engineReady, unsafeL2Head, needsReset, safeL2Head, finalizedL2Head>>

C27_Original ==
  loop \in {"top", "select"} => proposerTimer.armed /\ proposerTimer.tick <= 1

\* C27: while the loop lives, its one proposer timer is armed or has
\* expired with its tick still pending in its channel, which never holds
\* two ticks; the loop's prologue arms the timer and, once it has expired,
\* it stays unarmed until the loop plans the next proposer action.
C27_OneTimerArmedOrExpired ==
  [][loop' \in {"top", "select"}
       => /\ proposerTimer'.tick \in {0, 1}
          /\ proposerTimer'.armed \/ proposerTimer'.tick = 1
          /\ ~proposerTimer.armed /\ proposerTimer'.armed
               => loop = "idle" \/ Called(NewCalls, "PlanNextProposerAction")]_vars

\* The timer of a loop without a proposer: expired, its tick never taken.
C27_Witness ==
  /\ loop = "select"
  /\ ~ProposerEnabled
  /\ ~proposerTimer.armed
  /\ proposerTimer.tick = 1
  /\ proposerCh = "nil"
  /\ l1Head # 0

\* ---------------------------------------------------------------- bootstrap
\* The driver left to itself after Start: the loop, its timers and the
\* backup-sync ticker, and whatever Step returns.
NextBoot ==
  \/ Start(FALSE, FALSE)
  \/ LoopTop
  \/ TimerExpire
  \/ StepReq(AllResults, FALSE, FALSE)
  \/ DelayedStepReq
  \/ AltSyncTick

\* The loop goes on from the top of an iteration to its select, and the
\* select chooses at random among the cases that are ready, so a step
\* request that is ready again and again is taken.
SpecBoot ==
  /\ Init
  /\ [][NextBoot]_vars
  /\ WF_vars(LoopTop)
  /\ SF_vars(StepReq(AllResults, FALSE, FALSE))

\* C28: Start resets the pipeline, once, and leaves a step requested; the
\* started loop, given no input, comes to run Step; and when the first
\* Step starts the pipeline has been reset exactly once, by Start, and
\* stepAttempts is 0.
C28_BootstrapStep ==
  /\ [][loop = "idle" /\ loop' # "idle"
          => /\ NewCalls = <<Call("Reset", "start")>>
             /\ resetCalls' = 1
             /\ stepReqCh' = 1
             /\ ~stepped']_vars
  /\ [][~stepped /\ stepped'
          => /\ Handled
             /\ Called(NewCalls, "Step")
             /\ resetCalls = 1
             /\ stepAttempts = 0]_vars
  /\ (loop # "idle" ~> stepped)

\* The first Step has run and failed: the pipeline was reset once, by Start,
\* and the failure is the first attempt counted.
C28_Witness ==
  /\ stepped
  /\ StepReturned("temp")
  /\ resetCalls = 1
  /\ stepAttempts = 1
  /\ lastFired = 0

\* C30: the case of an L1 safe signal calls HandleNewL1SafeBlock with the
\* reference received and nothing else, which stores it as the L1 safe
\* reference; the step request channel, the delayed step, stepAttempts,
\* ProposerStopped, the L1 head and finalized references, the pipeline,
\* the proposer and its timer are as before.
C30_L1SafeOnlyUpdatesSafe ==
  [][Handled /\ Called(NewCalls, "HandleNewL1SafeBlock")
       => /\ NewCalls = <<Call("HandleNewL1SafeBlock", l1Safe')>>
          /\ UNCHANGED <<stepReqCh, delayedStepReq, stepAttempts, ProposerStopped,
                         l1Head, l1Finalized, derivationIdle, proposerCh>>
          /\ UNCHANGED <<timerVars, pipeVars, propVars, chainVars, histVars>>]_vars

\* An L1 safe signal taken while failed attempts are counted and no step
\* is requested: reqStep would have scheduled a delayed step.
C30_Witness ==
  /\ loop = "top"
  /\ InCalls(calls, Call("HandleNewL1SafeBlock", 1))
  /\ l1Safe = 1
  /\ l1Head = 0
  /\ stepAttempts > 0
  /\ stepReqCh = 0
  /\ delayedStepReq = 0

\* ------------------------------------------------------ configuration check
\* The configurations checked differ from the valid one by at most this
\* many modifiers.
MaxEdits == 2

\* The modifiers a configuration has gone through leave this many fields
\* changed.
Edits(c) == Cardinality({f \in DOMAIN c : c[f] # validConfig[f]})

\* A modifier of the test changes the configuration not yet checked.
ModifyConfig ==
  /\ loop = "idle"
  /\ checkErr = "unchecked"
  /\ \E name \in TestNames :
       /\ cfg' = modifier(name, cfg)
       /\ cfg' # cfg
       /\ Edits(cfg') <= MaxEdits
  /\ UNCHANGED <<loopVars, ProposerEnabled, timerVars, pipeVars, propVars, callVars,
                 auxVars, syncVars, closeCall, stepped, checkErr>>

\* err := cfg.Check()
CheckConfig ==
  /\ loop = "idle"
  /\ checkErr = "unchecked"
  /\ checkErr' = Check(cfg)
  /\ UNCHANGED <<loopVars, ProposerEnabled, timerVars, pipeVars, propVars, callVars,
                 auxVars, syncVars, closeCall, stepped, cfg>>

\* The driver is started on a configuration that passed the check.
StartChecked ==
  /\ checkErr = "nil"
  /\ Start(FALSE, FALSE)

\* Configurations are modified and checked; the driver runs on those that
\* pass.
NextConfig ==
  \/ ModifyConfig
  \/ CheckConfig
  \/ StartChecked
  \/ LoopTop
  \/ StepReq({"ok", "eof"}, FALSE, FALSE)

SpecConfig == Init /\ [][NextConfig]_vars

\* The rules that configuration c violates.
Violated(c) == {CheckKinds[i] : i \in {j \in 1..Len(CheckKinds) : violates(CheckKinds[j], c)}}

\* C29: the check of a configuration that violates exactly one rule
\* returns the error kind of that rule, and that of a configuration that
\* violates none returns nil; for each case of the test, the valid
\* configuration with that one modifier gets the error the test expects;
\* and the driver is started only on a configuration whose check returned
\* nil.
C29_CheckReturnsTheViolatedRule ==
  /\ checkErr # "unchecked"
       => /\ Cardinality(Violated(cfg)) = 1 => Violated(cfg) = {checkErr}
          /\ Violated(cfg) = {} <=> checkErr = "nil"
          /\ \A name \in TestNames :
               cfg = modifier(name, validConfig) => checkErr = expectedErr(name)
  /\ loop # "idle" => checkErr = "nil"

\* A proposer window of 1, in a configuration otherwise valid, is rejected.
C29_Witness ==
  /\ cfg = modifier("ProposerWindowSizeOne", validConfig)
  /\ checkErr = "ErrInvalidProposerWindowSize"
  /\ loop = "idle"

\* ------------------------------------------------ the L1 finalized signal
\* OnL1Finalized with a named reference.
OnFinalizedCall == SigCallOf({"finalized"}, 1..MaxRef)

\* Callers signal named finalized L1 references to a loop that derives with
\* failures.
NextFinalize ==
  \/ Start(FALSE, FALSE)
  \/ LoopTop
  \/ StepReq({"ok", "temp", "eof"}, FALSE, FALSE)
  \/ DelayedStepReq
  \/ OnFinalizedCall
  \/ SigCallCtxDone
  \/ SignalFromCall

SpecFinalize == Init /\ [][NextFinalize]_vars

\* C31: the loop handles a delivered L1 finalized signal in one iteration:
\* it stores the reference as the L1 finalized reference, calls
\* HandleNewL1FinalizedBlock and then Finalize with that same reference and
\* nothing else (no Step in between), and leaves the step request channel
\* and the delayed step as reqStep leaves them from where they were.
C31_FinalizedThenFinalizeThenStep ==
  [][Delivered("finalized")
       => /\ Handled
          /\ l1Finalized' = sigCall.arg
          /\ calls' = <<Call("HandleNewL1FinalizedBlock", sigCall.arg),
                        Call("Finalize", sigCall.arg)>>
          /\ <<stepReqCh', delayedStepReq'>>
               = reqStep(stepReqCh, delayedStepReq, stepAttempts)
          /\ IF stepAttempts = 0 THEN stepReqCh' = 1 ELSE delayedStepReq' # 0
          /\ UNCHANGED <<stepAttempts, stepped, pipeVars>>]_vars

\* The finalized reference 2 replaced 1 and Finalize(2) was called, with a
\* step requested right away.
C31_Witness ==
  /\ sigCall.pc = "done"
  /\ sigCall.kind = "finalized"
  /\ sigCall.ret = "nil"
  /\ loop = "top"
  /\ calls = <<Call("HandleNewL1FinalizedBlock", 2), Call("Finalize", 2)>>
  /\ l1Finalized = 2
  /\ stepAttempts = 0
  /\ stepReqCh = 1

\* ------------------------------------------------- the step request discipline
\* reqStep is called in this step: by the prologue of the loop, by the case
\* of an L1 head, L1 finalized or unsafe payload signal, or by the branch of
\* a Step that succeeded, needs more data or failed with a temporary or an
\* unclassified error.
ReqStepCalled ==
  \/ loop = "idle" /\ loop' # "idle"
  \/ /\ Handled
     /\ \/ Called(NewCalls, "HandleNewL1HeadBlock")
        \/ Called(NewCalls, "HandleNewL1FinalizedBlock")
        \/ Called(NewCalls, "AddUnsafePayload")
        \/ \E res \in {"ok", "ned", "temp", "other"} : InCalls(NewCalls, Call("Step", res))

\* len(stepReqCh) when reqStep is called in this step: the stepReqCh case has
\* taken the request it was woken by.
ChAtReqStep == IF Called(NewCalls, "Step") THEN 0 ELSE stepReqCh

\* C32: whenever reqStep is called, with stepAttempts = 0 it leaves one
\* request in the step request channel (the send is dropped when one is
\* there) and the delayed step as it was; with stepAttempts > 0 and no
\* delayed step pending it schedules one, for the delay of stepAttempts,
\* and sends nothing; otherwise it changes neither.  The channel never
\* holds more than one request, and a pending delayed step is never
\* replaced by another: it only goes away by firing.
C32_ReqStepDiscipline ==
  /\ [](stepReqCh \in {0, 1})
  /\ [][ReqStepCalled
          => IF stepAttempts' = 0
               THEN stepReqCh' = 1 /\ delayedStepReq' = delayedStepReq
               ELSE IF delayedStepReq = 0
                      THEN delayedStepReq' = stepAttempts' /\ stepReqCh' = ChAtReqStep
                      ELSE delayedStepReq' = delayedStepReq /\ stepReqCh' = ChAtReqStep]_vars
  /\ [][delayedStepReq # 0 /\ delayedStepReq' # delayedStepReq
          => DelayFired /\ stepReqCh' = 1]_vars

\* A Step failed a second time while the delayed step of the first failure
\* was still pending: reqStep left that one alone.
C32_Witness ==
  /\ loop = "top"
  /\ InCalls(calls, Call("Step", "temp"))
  /\ stepAttempts = 2
  /\ delayedStepReq = 1
  /\ stepReqCh = 0

\* ------------------------------------------------------- re-planned timer
\* C33: the proposer never fires on a stale tick: whenever the loop takes a
\* tick and runs RunNextProposerAction, the timer armed by the latest
\* planProposerAction has expired (the delay it planned has passed), and a
\* re-plan never leaves a tick of the previous arming in the channel of
\* the timer it has just armed.
C33_NoStaleTick ==
  /\ [][Handled /\ Called(NewCalls, "RunNextProposerAction")
          => ~proposerTimer.armed]_vars
  /\ [][Called(NewCalls, "PlanNextProposerAction")
          => proposerTimer'.armed /\ proposerTimer'.tick = 0]_vars

\* --------------------------------------------------- replies never block
\* The loop takes the request of the StartProposer call, or of the
\* StopProposer call, in this step.
StartTaken == startCall.pc = "send" /\ startCall'.pc = "wait"

StopTaken == stopCall.pc = "send" /\ stopCall'.pc = "wait"

\* C34: the loop is never blocked in a send to a StartProposer or
\* StopProposer caller.  The case that takes a request finds the reply
\* channel empty, puts one message in it (or closes it) and ends the
\* iteration in that step; while the call waits the channel gets nothing
\* more; and a caller that returns, on its reply or on its context, leaves
\* the loop where it is.
C34_RepliesNeverBlock ==
  /\ [](loop \notin {"startResp", "stopResp"})
  /\ [][StartTaken
          => /\ Handled /\ loop' = "top"
             /\ Buffered(startCall) = 0
             /\ Buffered(startCall') <= ReplyCap
             /\ startCall'.reply \in {"already running", "hash mismatch", "closed"}]_vars
  /\ [][StopTaken
          => /\ Handled /\ loop' = "top"
             /\ Buffered(stopCall) = 0
             /\ Buffered(stopCall') <= ReplyCap
             /\ stopCall'.reply.err \in {"not running", "nil"}]_vars
  /\ [][/\ startCall.pc = "wait" /\ startCall'.pc = "wait"
          => startCall'.reply = startCall.reply]_vars
  /\ [][/\ stopCall.pc = "wait" /\ stopCall'.pc = "wait"
          => stopCall'.reply = stopCall.reply]_vars
  /\ [][(\/ startCall.pc = "wait" /\ startCall'.pc = "done"
         \/ stopCall.pc = "wait" /\ stopCall'.pc = "done")
          => loop' = loop]_vars

\* The loop is back in its select with the replies to both callers still
\* in their channels, neither caller having received.
C34_Witness ==
  /\ loop = "select"
  /\ startCall.pc = "wait"
  /\ startCall.reply = "already running"
  /\ stopCall.pc = "wait"
  /\ stopCall.reply.err = "not running"

\* ------------------------------------------------ no step before the backoff
\* A Step returned a temporary or an unclassified error in this step.
StepFailed ==
  /\ Handled
  /\ \E res \in {"temp", "other"} : InCalls(NewCalls, Call("Step", res))

\* C35: a Step that fails with a temporary or an unclassified error leaves
\* failed attempts counted and no step requested; Step runs only on a
\* request in the step request channel; while failed attempts are counted,
\* a request gets into the empty channel only by the firing of a delayed
\* step, never by the case of an L1 head, L1 finalized or unsafe payload
\* signal; and the count of failed attempts is cleared only by a Step.  So
\* no Step runs between a failed Step and the next firing of a delayed step.
C35_NoStepBeforeBackoffFires ==
  /\ [][StepFailed => stepAttempts' > 0 /\ stepReqCh' = 0]_vars
  /\ [][Handled /\ Called(NewCalls, "Step") => stepReqCh = 1]_vars
  /\ [][stepAttempts > 0 /\ stepReqCh = 0 /\ stepReqCh' = 1 => DelayFired]_vars
  /\ [][stepAttempts > 0 /\ stepAttempts' = 0 => Handled /\ Called(NewCalls, "Step")]_vars
  /\ [][(/\ stepAttempts > 0
         /\ Handled
         /\ \/ Called(NewCalls, "HandleNewL1HeadBlock")
            \/ Called(NewCalls, "HandleNewL1FinalizedBlock")
            \/ Called(NewCalls, "AddUnsafePayload"))
          => stepReqCh' = stepReqCh /\ delayedStepReq' # 0]_vars

\* An L1 head signal was handled after a failed Step and before the
\* delayed step fired: no step is requested.
C35_Witness ==
  /\ loop = "top"
  /\ calls = <<Call("HandleNewL1HeadBlock", 1)>>
  /\ stepAttempts = 1
  /\ stepReqCh = 0
  /\ delayedStepReq = 1
  /\ lastFired = 0

\* ------------------------------------------------- stale delayed steps
\* C36 as stated: whenever a delayed step is pending, failed attempts are
\* counted (stepAttempts > 0).
C36_Original ==
  loop \in {"top", "select"} /\ delayedStepReq # 0 => stepAttempts > 0

\* C36: a delayed step is scheduled only while failed attempts are counted,
\* for the delay of that count, and goes away only by firing, which puts
\* one request in the step request channel and leaves stepAttempts alone.
\* A Step that succeeds or returns EOF or NotEnoughData clears stepAttempts
\* and leaves a pending delayed step pending.
C36_DelayedStepOutlivesSuccess ==
  /\ [][DelayScheduled => stepAttempts' > 0 /\ delayedStepReq' = stepAttempts']_vars
  /\ [][delayedStepReq # 0 /\ delayedStepReq' # delayedStepReq
          => DelayFired /\ stepReqCh' = 1 /\ UNCHANGED stepAttempts]_vars
  /\ [][(Handled /\ \E res \in {"ok", "eof", "ned"} : InCalls(NewCalls, Call("Step", res)))
          => stepAttempts' = 0 /\ delayedStepReq' = delayedStepReq]_vars

\* A Step has succeeded with the delayed step of an earlier failure still
\* pending.
C36_Witness ==
  /\ loop = "top"
  /\ calls = <<Call("Step", "ok")>>
  /\ stepAttempts = 0
  /\ delayedStepReq = 1
  /\ stepReqCh = 1

\* ------------------------------------------------- an eligible proposer
\* C37: in every iteration whose top finds the proposer eligible (enabled,
\* not stopped, an L1 head seen, the engine ready), the select waits on the
\* proposer timer's channel.
C37_EligibleProposerIsArmed ==
  loop = "select" /\ proposerMayAct => proposerCh = "C"

\* ------------------------------------------------- Close on a dead loop
\* Close against a loop that may end on a critical Step error, and Close
\* called again after it has returned.
NextShutdown ==
  \/ Start(FALSE, FALSE)
  \/ LoopTop
  \/ StepReq({"ok", "eof", "temp", "critical"}, FALSE, FALSE)
  \/ DelayedStepReq
  \/ L1HeadSig
  \/ CloseBegin
  \/ Done
  \/ CloseReturn

\* The fairness of SpecClose: the loop goes on to its select, a done
\* message that stays ready is taken, a caller whose wait is over returns.
SpecShutdown ==
  /\ Init
  /\ [][NextShutdown]_vars
  /\ WF_vars(LoopTop)
  /\ SF_vars(Done)
  /\ WF_vars(CloseReturn)

\* C38: every call of Close on a driver that was started returns, also
\* when the loop has ended on a critical error and when Close has returned
\* before.
C38_CloseAlwaysReturns ==
  (loop # "idle" /\ closeCall.pc = "send") ~> (closeCall.pc = "done")

\* ------------------------------------------------ the expected L2 block
\* C39: at every tick the block number that the gap check asks the
\* pipeline about is floor((now - Genesis.L2Time) / BlockTime), and a tick
\* whose wall clock is earlier than Genesis.L2Time enqueues no request.
C39_ExpectedBlockIsFloor ==
  [][Ticked
       => /\ TickGap(calls').expected
               = (TickGap(calls').wallClock - GenesisL2Time) \div BlockTime
          /\ TickGap(calls').wallClock < GenesisL2Time
               => TickSent(calls') = <<>>]_vars

====
